---- MODULE Spec2Model ----
(***************************************************************************)
(* Pyodide-backed Python evaluator with dynamic package loading:           *)
(* the import scanner, the package classifier, the PackageManager with its *)
(* load cache, and the evaluator that owns the interpreter singleton.      *)
(*                                                                         *)
(* Text is modelled as a sequence of one-character strings, so that the    *)
(* regular expressions of the import scanner are computed as the code      *)
(* computes them.  Asynchronous functions are modelled at the granularity  *)
(* of their awaits on external operations: the synchronous stretch of code *)
(* between two such awaits is one action.                                  *)
(***************************************************************************)
EXTENDS Integers, Sequences, FiniteSets, TLC

\* ------------------------------------------------------------------------
\* Bounds of the model
\* ------------------------------------------------------------------------
\* operations (evaluateChunk / loadPackage / loadPackages calls) in flight
MaxCalls == 2
\* longest name list handed directly to loadPackages
MaxBatch == 2
\* loadPackageWithStrategy calls of callers alive (dispatched, and their
\* operation not yet dropped by its caller) at one time
MaxLoads == 2
\* distinct fault texts the external loaders can raise
NumErrors == 1
\* largest value of the Date.now() clock
MaxClock == 1

\* ------------------------------------------------------------------------
\* Characters and text helpers
\* ------------------------------------------------------------------------
Lower == {"a","b","c","d","e","f","g","h","i","j","k","l","m",
          "n","o","p","q","r","s","t","u","v","w","x","y","z"}
Upper == {"A","B","C","D","E","F","G","H","I","J","K","L","M",
          "N","O","P","Q","R","S","T","U","V","W","X","Y","Z"}
Digit == {"0","1","2","3","4","5","6","7","8","9"}
\* [a-zA-Z0-9_]
WordChars == Lower \cup Upper \cup Digit \cup {"_"}
\* [a-zA-Z0-9_.]
ModuleChars == WordChars \cup {"."}
\* [a-zA-Z0-9_*]
ItemChars == WordChars \cup {"*"}
\* \s (the members that can be written as characters here)
Whitespace == {" ", "\t", "\n", "\f", "\r"}
\* line terminators, which '.' does not match
LineTerminators == {"\n", "\r"}

\* s.slice(i-1, j-1): the characters at positions i .. j-1 (1-based)
Slice(s, i, j) == [k \in 1..(j - i) |-> s[i + k - 1]]

\* s.startsWith(pre)
StartsWith(s, pre) ==
  /\ Len(s) >= Len(pre)
  /\ \A k \in 1..Len(pre) : s[k] = pre[k]

\* does pre occur in s at position i
MatchAt(s, i, pre) ==
  /\ i + Len(pre) - 1 <= Len(s)
  /\ \A k \in 1..Len(pre) : s[i + k - 1] = pre[k]

\* end (exclusive) of the longest run of characters of class C starting at i:
\* what a greedy C* consumes
RunEnd(s, i, C) ==
  LET stops == {j \in i..Len(s) : s[j] \notin C}
  IN  IF stops = {} THEN Len(s) + 1
      ELSE CHOOSE j \in stops : \A k \in stops : j <= k

\* s.trim()
Trim(s) ==
  LET keep == {k \in 1..Len(s) : s[k] \notin Whitespace}
  IN  IF keep = {} THEN <<>>
      ELSE LET lo == CHOOSE k \in keep : \A m \in keep : k <= m
               hi == CHOOSE k \in keep : \A m \in keep : k >= m
           IN  Slice(s, lo, hi + 1)

\* s.split(sep) for a one-character separator
RECURSIVE Split(_, _)
Split(s, sep) ==
  LET at == {k \in 1..Len(s) : s[k] = sep}
  IN  IF at = {} THEN <<s>>
      ELSE LET first == CHOOSE k \in at : \A m \in at : k <= m
           IN  <<Slice(s, 1, first)>> \o Split(Slice(s, first + 1, Len(s) + 1), sep)

\* the elements of a sequence
Range(s) == {s[k] : k \in 1..Len(s)}

\* Array.from(new Set(names)): first occurrences, in insertion order
RECURSIVE Dedup(_)
Dedup(s) ==
  IF s = <<>> THEN <<>>
  ELSE LET init == Dedup(Slice(s, 1, Len(s)))
           last == s[Len(s)]
       IN  IF last \in Range(init) THEN init ELSE Append(init, last)

\* an optional value: undefined, or a value that is present
None == [has |-> FALSE]
Some(v) == [has |-> TRUE, val |-> v]

\* ------------------------------------------------------------------------
\* Package classifier (config/pyodide-packages.ts)
\* ------------------------------------------------------------------------
PYODIDE_BUILTIN_PACKAGES ==
  { <<"n","u","m","p","y">>, <<"p","a","n","d","a","s">>, <<"s","c","i","p","y">>,
    <<"m","a","t","p","l","o","t","l","i","b">>, <<"p","l","o","t","l","y">>, <<"b","o","k","e","h">>,
    <<"s","e","a","b","o","r","n">>, <<"s","c","i","k","i","t","-","l","e","a","r","n">>, <<"t","e","n","s","o","r","f","l","o","w">>,
    <<"k","e","r","a","s">>, <<"p","y","t","o","r","c","h">>, <<"x","g","b","o","o","s","t">>,
    <<"p","i","l","l","o","w">>, <<"o","p","e","n","c","v","-","p","y","t","h","o","n">>, <<"b","e","a","u","t","i","f","u","l","s","o","u","p","4">>,
    <<"l","x","m","l">>, <<"r","e","q","u","e","s","t","s">>, <<"u","r","l","l","i","b","3">>,
    <<"s","y","m","p","y">>, <<"s","t","a","t","s","m","o","d","e","l","s">>, <<"n","e","t","w","o","r","k","x">>,
    <<"m","i","c","r","o","p","i","p">>, <<"p","i","p">>, <<"p","y","t","e","s","t">>,
    <<"b","l","a","c","k">>, <<"m","y","p","y">>, <<"d","a","t","e","u","t","i","l">>,
    <<"p","y","t","z">>, <<"s","i","x">>, <<"s","e","t","u","p","t","o","o","l","s">>,
    <<"w","h","e","e","l">>, <<"p","a","c","k","a","g","i","n","g">>, <<"c","e","r","t","i","f","i">>,
    <<"c","h","a","r","s","e","t","-","n","o","r","m","a","l","i","z","e","r">>, <<"i","d","n","a">>, <<"c","y","c","l","e","r">>,
    <<"k","i","w","i","s","o","l","v","e","r">>, <<"p","y","p","a","r","s","i","n","g">>, <<"f","o","n","t","t","o","o","l","s">>,
    <<"i","p","y","t","h","o","n">>, <<"j","u","p","y","t","e","r">>, <<"n","o","t","e","b","o","o","k">>,
    <<"c","r","y","p","t","o","g","r","a","p","h","y">>, <<"p","y","c","r","y","p","t","o","d","o","m","e">>, <<"o","p","e","n","p","y","x","l">>,
    <<"x","l","r","d">>, <<"h","5","p","y">>, <<"t","a","b","l","e","s">>,
    <<"a","l","t","a","i","r">>, <<"p","l","o","t","n","i","n","e">>, <<"p","y","g","m","e","n","t","s">>,
    <<"p","a","t","s","y">>, <<"l","i","f","e","l","i","n","e","s">>, <<"j","o","b","l","i","b">>,
    <<"t","q","d","m">>, <<"c","l","i","c","k">>, <<"j","i","n","j","a","2">>,
    <<"m","a","r","k","u","p","s","a","f","e">> }

ESSENTIAL_PACKAGES == << <<"m","i","c","r","o","p","i","p">> >>

\* the alias table, as a set of <<import name, distribution name>> entries
SPECIAL_HANDLING_PACKAGES ==
  { <<<<"c","v","2">>, <<"o","p","e","n","c","v","-","p","y","t","h","o","n">>>>,
    <<<<"P","I","L">>, <<"p","i","l","l","o","w">>>>,
    <<<<"s","k","l","e","a","r","n">>, <<"s","c","i","k","i","t","-","l","e","a","r","n">>>>,
    <<<<"t","o","r","c","h">>, <<"p","y","t","o","r","c","h">>>>,
    <<<<"t","f">>, <<"t","e","n","s","o","r","f","l","o","w">>>> }

\* SPECIAL_HANDLING_PACKAGES.has(packageName)
SpecialHas(packageName) == \E e \in SPECIAL_HANDLING_PACKAGES : e[1] = packageName

\* SPECIAL_HANDLING_PACKAGES.get(packageName), for a key of the table
SpecialGet(packageName) ==
  (CHOOSE e \in SPECIAL_HANDLING_PACKAGES : e[1] = packageName)[2]

\* the direct membership test alone, without the alias table
isPyodideBuiltinPackageDirect(packageName) ==
  packageName \in PYODIDE_BUILTIN_PACKAGES

isPyodideBuiltinPackage(packageName) ==
  IF packageName \in PYODIDE_BUILTIN_PACKAGES THEN TRUE
  ELSE IF SpecialHas(packageName)
       THEN SpecialGet(packageName) \in PYODIDE_BUILTIN_PACKAGES
       ELSE FALSE

getPyodidePackageName(packageName) ==
  IF SpecialHas(packageName) THEN SpecialGet(packageName) ELSE packageName

\* ------------------------------------------------------------------------
\* Import scanner (utils/import-parser.ts)
\* ------------------------------------------------------------------------
builtinModules ==
  { <<"o","s">>, <<"s","y","s">>, <<"j","s","o","n">>,
    <<"m","a","t","h">>, <<"r","a","n","d","o","m">>, <<"d","a","t","e","t","i","m","e">>,
    <<"t","i","m","e">>, <<"c","o","l","l","e","c","t","i","o","n","s">>, <<"i","t","e","r","t","o","o","l","s">>,
    <<"f","u","n","c","t","o","o","l","s">>, <<"o","p","e","r","a","t","o","r">>, <<"p","a","t","h","l","i","b">>,
    <<"g","l","o","b">>, <<"s","h","u","t","i","l">>, <<"t","e","m","p","f","i","l","e">>,
    <<"u","r","l","l","i","b">>, <<"h","t","t","p">>, <<"h","t","m","l">>,
    <<"x","m","l">>, <<"c","s","v">>, <<"c","o","n","f","i","g","p","a","r","s","e","r">>,
    <<"l","o","g","g","i","n","g">>, <<"u","n","i","t","t","e","s","t">>, <<"i","o">>,
    <<"r","e">>, <<"s","t","r","i","n","g">>, <<"t","e","x","t","w","r","a","p">>,
    <<"u","n","i","c","o","d","e","d","a","t","a">>, <<"c","a","l","e","n","d","a","r">>, <<"h","a","s","h","l","i","b">>,
    <<"h","m","a","c">>, <<"s","e","c","r","e","t","s">>, <<"s","t","a","t","i","s","t","i","c","s">>,
    <<"d","e","c","i","m","a","l">>, <<"f","r","a","c","t","i","o","n","s">>, <<"c","o","n","t","e","x","t","l","i","b">>,
    <<"a","b","c">>, <<"n","u","m","b","e","r","s">>, <<"t","y","p","e","s">>,
    <<"c","o","p","y">>, <<"p","p","r","i","n","t">>, <<"r","e","p","r","l","i","b">>,
    <<"e","n","u","m">>, <<"g","r","a","p","h","l","i","b">>, <<"w","e","a","k","r","e","f">>,
    <<"g","c">>, <<"i","n","s","p","e","c","t">>, <<"s","i","t","e">>,
    <<"i","m","p","o","r","t","l","i","b">>, <<"p","k","g","u","t","i","l">>, <<"m","o","d","u","l","e","f","i","n","d","e","r">>,
    <<"r","u","n","p","y">>, <<"t","r","a","c","e","b","a","c","k">>, <<"f","u","t","u","r","e">>,
    <<"k","e","y","w","o","r","d">>, <<"t","o","k","e","n">>, <<"t","o","k","e","n","i","z","e">>,
    <<"a","s","t">>, <<"s","y","m","t","a","b","l","e">>, <<"s","y","m","b","o","l">>,
    <<"d","i","s">>, <<"p","i","c","k","l","e","t","o","o","l","s">>, <<"f","o","r","m","a","t","t","e","r">>,
    <<"e","r","r","n","o">>, <<"c","t","y","p","e","s">>, <<"t","h","r","e","a","d","i","n","g">>,
    <<"m","u","l","t","i","p","r","o","c","e","s","s","i","n","g">>, <<"c","o","n","c","u","r","r","e","n","t">>, <<"s","u","b","p","r","o","c","e","s","s">>,
    <<"s","c","h","e","d">>, <<"q","u","e","u","e">>, <<"s","o","c","k","e","t","s","e","r","v","e","r">>,
    <<"s","s","l">>, <<"a","s","y","n","c","i","o">>, <<"s","o","c","k","e","t">>,
    <<"s","i","g","n","a","l">>, <<"m","m","a","p">>, <<"s","e","l","e","c","t">>,
    <<"s","e","l","e","c","t","o","r","s">>, <<"c","o","d","e","c","s">>, <<"l","o","c","a","l","e">>,
    <<"g","e","t","t","e","x","t">>, <<"a","r","g","p","a","r","s","e">>, <<"o","p","t","p","a","r","s","e">>,
    <<"g","e","t","o","p","t">>, <<"c","m","d">>, <<"s","h","l","e","x">>,
    <<"p","l","a","t","f","o","r","m">>, <<"w","a","r","n","i","n","g","s">>, <<"d","a","t","a","c","l","a","s","s","e","s">>,
    <<"t","y","p","i","n","g">>, <<"p","y","d","o","c">>, <<"d","o","c","t","e","s","t">>,
    <<"d","i","f","f","l","i","b">>, <<"r","l","c","o","m","p","l","e","t","e","r">>, <<"t","a","b","n","a","n","n","y">>,
    <<"t","r","a","c","e">>, <<"t","i","m","e","i","t">>, <<"c","P","r","o","f","i","l","e">>,
    <<"p","r","o","f","i","l","e">>, <<"p","s","t","a","t","s">>, <<"c","g","i">>,
    <<"c","g","i","t","b">>, <<"w","s","g","i","r","e","f">>, <<"f","t","p","l","i","b">>,
    <<"p","o","p","l","i","b">>, <<"i","m","a","p","l","i","b">>, <<"n","n","t","p","l","i","b">>,
    <<"s","m","t","p","l","i","b">>, <<"s","m","t","p","d">>, <<"t","e","l","n","e","t","l","i","b">>,
    <<"u","u","i","d">>, <<"z","l","i","b">>, <<"g","z","i","p">>,
    <<"b","z","2">>, <<"l","z","m","a">>, <<"z","i","p","f","i","l","e">>,
    <<"t","a","r","f","i","l","e">> }

isBuiltinPythonModule(moduleName) == moduleName \in builtinModules

kwImport == <<"i","m","p","o","r","t">>
kwFrom == <<"f","r","o","m">>
kwAs == <<"a","s">>

\* /^([a-zA-Z0-9_]+)\s+as\s+([a-zA-Z0-9_]+)$/ on part; None when no match
AliasItemMatch(part) ==
  LET e1 == RunEnd(part, 1, WordChars)
      e2 == RunEnd(part, e1, Whitespace)
      e3 == RunEnd(part, e2 + 2, Whitespace)
      e4 == RunEnd(part, e3, WordChars)
  IN  IF /\ e1 > 1
         /\ e2 > e1
         /\ MatchAt(part, e2, kwAs)
         /\ e3 > e2 + 2
         /\ e4 > e3
         /\ e4 = Len(part) + 1
      THEN Some([name |-> Slice(part, 1, e1), alias |-> Some(Slice(part, e3, e4))])
      ELSE None

\* /^([a-zA-Z0-9_*]+)$/ on part
SimpleItemMatch(part) ==
  /\ Len(part) > 0
  /\ \A k \in 1..Len(part) : part[k] \in ItemChars

\* the loop body of parseImportItems over the trimmed parts
RECURSIVE ParseParts(_)
ParseParts(parts) ==
  IF parts = <<>> THEN <<>>
  ELSE LET part == Head(parts)
           rest == ParseParts(Tail(parts))
       IN  IF AliasItemMatch(part).has
           THEN <<AliasItemMatch(part).val>> \o rest
           ELSE IF SimpleItemMatch(part)
                THEN <<[name |-> part, alias |-> None]>> \o rest
                ELSE rest

parseImportItems(importPart) ==
  LET raw == Split(importPart, ",")
  IN  ParseParts([k \in 1..Len(raw) |-> Trim(raw[k])])

\* the plain-import pattern with a module group that takes any text up to
\* the next blank: /^import\s+(\S+)/
ImportMatchAnyText(line) ==
  LET w1 == RunEnd(line, 7, Whitespace)
      m1 == RunEnd(line, w1, {c \in Range(line) : c \notin Whitespace})
  IN  IF /\ StartsWith(line, kwImport)
         /\ w1 > 7
         /\ w1 <= Len(line)
      THEN Some([module |-> Slice(line, w1, m1), alias |-> None])
      ELSE None

\* the plain-import pattern with a module group that stops at the first dot:
\* /^import\s+([a-zA-Z0-9_]+)(?:\s+as\s+([a-zA-Z0-9_]+))?/
ImportMatchUndotted(line) ==
  LET w1 == RunEnd(line, 7, Whitespace)
      m1 == RunEnd(line, w1, WordChars)
      w2 == RunEnd(line, m1, Whitespace)
      w3 == RunEnd(line, w2 + 2, Whitespace)
      a1 == RunEnd(line, w3, WordChars)
      hasAlias == /\ w2 > m1
                  /\ MatchAt(line, w2, kwAs)
                  /\ w3 > w2 + 2
                  /\ a1 > w3
  IN  IF /\ StartsWith(line, kwImport)
         /\ w1 > 7
         /\ w1 <= Len(line)
         /\ line[w1] \in WordChars
      THEN Some([module |-> Slice(line, w1, m1),
                 alias |-> IF hasAlias THEN Some(Slice(line, w3, a1)) ELSE None])
      ELSE None

\* the plain-import pattern with optional whitespace after the keyword:
\* /^import\s*([a-zA-Z0-9_][a-zA-Z0-9_.]*)(?:\s+as\s+([a-zA-Z0-9_]+))?/
ImportMatchUnspaced(line) ==
  LET w1 == RunEnd(line, 7, Whitespace)
      m1 == RunEnd(line, w1, ModuleChars)
      w2 == RunEnd(line, m1, Whitespace)
      w3 == RunEnd(line, w2 + 2, Whitespace)
      a1 == RunEnd(line, w3, WordChars)
      hasAlias == /\ w2 > m1
                  /\ MatchAt(line, w2, kwAs)
                  /\ w3 > w2 + 2
                  /\ a1 > w3
  IN  IF /\ StartsWith(line, kwImport)
         /\ w1 <= Len(line)
         /\ line[w1] \in WordChars
      THEN Some([module |-> Slice(line, w1, m1),
                 alias |-> IF hasAlias THEN Some(Slice(line, w3, a1)) ELSE None])
      ELSE None

\* /^import\s+([a-zA-Z0-9_][a-zA-Z0-9_.]*)(?:\s+as\s+([a-zA-Z0-9_]+))?/
\* on a trimmed line; None when no match
ImportMatch(line) ==
  LET w1 == RunEnd(line, 7, Whitespace)
      m1 == RunEnd(line, w1, ModuleChars)
      w2 == RunEnd(line, m1, Whitespace)
      w3 == RunEnd(line, w2 + 2, Whitespace)
      a1 == RunEnd(line, w3, WordChars)
      hasAlias == /\ w2 > m1
                  /\ MatchAt(line, w2, kwAs)
                  /\ w3 > w2 + 2
                  /\ a1 > w3
  IN  IF /\ StartsWith(line, kwImport)
         /\ w1 > 7
         /\ w1 <= Len(line)
         /\ line[w1] \in WordChars
      THEN Some([module |-> Slice(line, w1, m1),
                 alias |-> IF hasAlias THEN Some(Slice(line, w3, a1)) ELSE None])
      ELSE None

\* /^from\s+([a-zA-Z0-9_][a-zA-Z0-9_.]*)\s+import\s+(.+)/ on a trimmed line
FromImportMatch(line) ==
  LET w1 == RunEnd(line, 5, Whitespace)
      m1 == RunEnd(line, w1, ModuleChars)
      w2 == RunEnd(line, m1, Whitespace)
      w3 == RunEnd(line, w2 + 6, Whitespace)
      d1 == RunEnd(line, w3, {c \in Range(line) : c \notin LineTerminators})
  IN  IF /\ StartsWith(line, kwFrom)
         /\ w1 > 5
         /\ w1 <= Len(line)
         /\ line[w1] \in WordChars
         /\ w2 > m1
         /\ MatchAt(line, w2, kwImport)
         /\ w3 > w2 + 6
         /\ d1 > w3
      THEN Some([module |-> Slice(line, w1, m1), importPart |-> Slice(line, w3, d1)])
      ELSE None

\* the loop body of extractImports over lines i .. lines.length
RECURSIVE ScanLines(_, _)
ScanLines(lines, i) ==
  IF i > Len(lines) THEN <<>>
  ELSE LET line == Trim(lines[i])
           rest == ScanLines(lines, i + 1)
       IN  IF StartsWith(line, <<"#">>) \/ Len(line) = 0 THEN rest
           ELSE IF ImportMatch(line).has
                THEN <<[module |-> ImportMatch(line).val.module,
                        alias |-> ImportMatch(line).val.alias,
                        items |-> None,
                        isFromImport |-> FALSE,
                        line |-> i]>> \o rest
                ELSE IF FromImportMatch(line).has
                     THEN LET items == parseImportItems(FromImportMatch(line).val.importPart)
                          IN  <<[module |-> FromImportMatch(line).val.module,
                                 alias |-> None,
                                 items |-> Some([k \in 1..Len(items) |-> items[k].name]),
                                 isFromImport |-> TRUE,
                                 line |-> i]>> \o rest
                     ELSE rest

extractImports(code) == ScanLines(Split(code, "\n"), 1)

\* the extraction with the standard-library test applied to the whole module
\* path instead of its first segment
extractPackageNamesByModule(imports) ==
  LET kept == SelectSeq(imports, LAMBDA imp : ~isBuiltinPythonModule(imp.module))
  IN  Dedup([k \in 1..Len(kept) |-> Split(kept[k].module, ".")[1]])

\* the extraction with the loop left at the first standard-library module
RECURSIVE extractPackageNamesUntilBuiltin(_)
extractPackageNamesUntilBuiltin(imports) ==
  IF imports = <<>> THEN <<>>
  ELSE LET top == Split(Head(imports).module, ".")[1]
       IN  IF isBuiltinPythonModule(top) THEN <<>>
           ELSE Dedup(<<top>> \o extractPackageNamesUntilBuiltin(Tail(imports)))

\* the package names in the order a JavaScript Set keeps them (insertion order)
extractPackageNames(imports) ==
  LET tops == [k \in 1..Len(imports) |-> Split(imports[k].module, ".")[1]]
  IN  Dedup(SelectSeq(tops, LAMBDA t : ~isBuiltinPythonModule(t)))

\* ------------------------------------------------------------------------
\* Values of the model
\* ------------------------------------------------------------------------
Foo == <<"f","o","o">>
Micropip == <<"m","i","c","r","o","p","i","p">>

\* the package names that loads are requested for
PkgNames == {Foo, Micropip}

\* the chunks submitted for evaluation
CHUNKS ==
  << <<"i","m","p","o","r","t"," ","m","i","c","r","o","p","i","p","\n","f","r","o","m"," ","f","o","o"," ","i","m","p","o","r","t"," ","b","a","r">>,
     <<"#"," ","i","m","p","o","r","t"," ","f","o","o","\n","i","m","p","o","r","t"," ","o","s">> >>

\* the name lists handed directly to loadPackages
NameLists ==
  UNION {[1..n -> PkgNames] : n \in 0..MaxBatch}

\* a thrown value: an Error object with its name and message
Err(name, message) == [name |-> name, message |-> message]

\* String(error) / `${error}` of a thrown Error object
ErrString(error) ==
  IF Len(error.message) = 0 THEN error.name
  ELSE error.name \o <<":"," ">> \o error.message

\* the faults the external operations (script import, loadPyodide, package
\* loaders, guest code) can raise
ExtErrors ==
  { Err(<<"E","r","r","o","r">>, <<"e", <<"1","2","3","4","5","6","7","8","9">>[k]>>) : k \in 1..NumErrors }

\* the faults guest code can raise in runPythonAsync
GuestErrors ==
  { Err(<<"P","y","t","h","o","n","E","r","r","o","r">>, <<"b","o","o","m">>),
    Err(<<"E","r","r","o","r">>, <<"E","r","r","o","r",":"," ","P","y","t","h","o","n"," ","e","x","e","c","u","t","i","o","n"," ","f","a","i","l","e","d",":"," ","x">>) }

\* items.join(sep)
RECURSIVE Join(_, _)
Join(items, sep) ==
  IF Len(items) = 0 THEN <<>>
  ELSE IF Len(items) = 1 THEN items[1]
  ELSE items[1] \o sep \o Join(Tail(items), sep)

\* s.replace(/pat/, "") for a literal pattern: the first occurrence is removed
ReplaceFirst(s, pat) ==
  LET at == {k \in 1..Len(s) : MatchAt(s, k, pat)}
  IN  IF at = {} THEN s
      ELSE LET first == CHOOSE k \in at : \A m \in at : k <= m
           IN  Slice(s, 1, first) \o Slice(s, first + Len(pat), Len(s) + 1)

\* s.replace(/^pat/, "") for a literal pattern
ReplacePrefix(s, pat) ==
  IF StartsWith(s, pat) THEN Slice(s, Len(pat) + 1, Len(s) + 1) ELSE s

\* PythonEvaluator.formatError, for a thrown Error object
formatError(err) ==
  LET message == IF Len(err.message) > 0 THEN err.message ELSE ErrString(err)
  IN  ReplaceFirst(
        ReplacePrefix(
          ReplacePrefix(message, <<"E","r","r","o","r",":"," ">>),
          <<"P","y","t","h","o","n"," ","e","x","e","c","u","t","i","o","n"," ","f","a","i","l","e","d",":"," ">>),
        <<"P","y","t","h","o","n","E","r","r","o","r",":"," ">>)

\* the line evaluateChunk sends from its catch block
ErrorLine(err) == <<"[","p","y","t","h","o","n"," ","e","r","r","o","r","]"," ">> \o formatError(err)

\* the failure details loadRequiredPackages writes to the console, as a line
WarningLineDetailed(failedResults) ==
  <<"[","w","a","r","n","i","n","g","]"," ","S","o","m","e"," ","p","a","c","k","a","g","e","s"," ","f","a","i","l","e","d"," ","t","o"," ","l","o","a","d",":"," ">>
    \o Join([k \in 1..Len(failedResults) |->
               failedResults[k].packageName \o <<" ","(">> \o failedResults[k].error.val
                 \o <<")">>], <<","," ">>)
    \o <<"\n">>

\* the line loadRequiredPackages sends when some results are failures
WarningLine(failedResults) ==
  <<"[","w","a","r","n","i","n","g","]"," ","S","o","m","e"," ","p","a","c","k","a","g","e","s"," ","f","a","i","l","e","d"," ","t","o"," ","l","o","a","d",":"," ">>
    \o Join([k \in 1..Len(failedResults) |-> failedResults[k].packageName], <<","," ">>)
    \o <<"\n">>


\* the package names loadPackagesFromCode extracts from each chunk of CHUNKS:
\* extractImports, then extractPackageNames (computed once per chunk)
PackagesOfChunk ==
  [k \in 1..Len(CHUNKS) |-> extractPackageNames(extractImports(CHUNKS[k]))]
\* ------------------------------------------------------------------------
\* State
\* ------------------------------------------------------------------------
VARIABLES
  pyodideInstance,  \* module-level handle: 0 = undefined, n = the n-th runtime created
  pyodideReady,     \* module-level promise: "unset", "pending", "fulfilled", "rejected"
  readyReason,      \* the reason pyodideReady was rejected with
  packageManager,   \* module-level packageManager is assigned
  cache,            \* PackageManager.cache: loaded, failed, loadTimestamps
  micropipReady,    \* PackageManager.micropipReady
  config,           \* PackageManager.config
  now,              \* Date.now(), in units of the model's clock
  pc,               \* per operation in flight: where it is suspended
  op,               \* per operation: the call and its argument
  batch,            \* per operation: the loadPackageWithStrategy calls it dispatched
  info,             \* per operation: what it awaits and what it has done
  sent,             \* per operation: the texts it passed to conductor.sendOutput
  initStarts,       \* number of loadPyodide calls made
  invoked,          \* names pyodide.loadPackage / micropip.install was called for
                    \* since the last clearCache
  okSince,          \* names for which a load produced a success since the last clearCache
  failSince,        \* names for which a load produced a failure since the last clearCache
  io,               \* the I/O bridge of the executing chunk: output written, input held
  arg,              \* the argument handed to a function that is checked on its own
  res               \* the results that function has produced for arg

vars == <<pyodideInstance, pyodideReady, readyReason, packageManager, cache,
          micropipReady, config, now, pc, op, batch, info, sent, initStarts,
          invoked, okSince, failSince, io, arg, res>>

evalVars == <<pyodideInstance, pyodideReady, readyReason, packageManager, initStarts>>
pmVars == <<cache, micropipReady, config>>
histVars == <<okSince, failSince>>
\* the state of the parts that are checked on their own: the I/O bridge of an
\* executing chunk (io), and the argument and results of the name
\* classification and of the import scanner (arg, res)
sideVars == <<io, arg, res>>

\* operation 0 is the initialisation, the others are calls from outside
InitProc == 0
Callers == 1..MaxCalls
Procs == {InitProc} \cup Callers

EmptyMap == [n \in {} |-> 0]
MapSet(m, k, v) == [n \in DOMAIN m \cup {k} |-> IF n = k THEN v ELSE m[n]]

\* the cache the PackageManager constructor creates
EmptyCache == [loaded |-> {}, failed |-> EmptyMap, loadTimestamps |-> EmptyMap]

\* the configuration the constructor builds from a partial one
DefaultConfig == [enableCaching |-> TRUE, preloadEssentials |-> TRUE]

NoOp == [kind |-> "none"]
\* await: what the call awaits from ensurePyodideLoaded; thrown: the fault it
\* got instead; found: pyodideReady as the call found it; afterFault: a guest
\* fault had been reported when the call was made; wired, scanned, ran: the
\* I/O bridge is set up, the chunk is scanned, runPythonAsync was called;
\* guestFault: the guest code faulted; outcome: how the call's promise settled
NoInfo == [await |-> "none", thrown |-> None, found |-> "none", afterFault |-> FALSE,
           wired |-> FALSE, scanned |-> FALSE, ran |-> FALSE, guestFault |-> FALSE,
           outcome |-> "none"]

\* the I/O bridge before the interpreter has written or read anything:
\* emitted: what the interpreter wrote, as [channel, text], in order;
\* inputs: the lines the host holds ready for tryRequestInput;
\* calls: the calls of the injected input function, with what each did
NoIO == [emitted |-> <<>>, inputs |-> <<>>, calls |-> <<>>]

\* ------------------------------------------------------------------------
\* PackageManager (services/package-manager.ts)
\* ------------------------------------------------------------------------
\* method names of a PackageLoadResult
Pyodide == "pyodide"
MicropipMethod == "micropip"

Result(packageName, success, method, error, loadTime) ==
  [packageName |-> packageName, success |-> success, method |-> method,
   error |-> error, loadTime |-> loadTime]

NotReadyError ==
  Err(<<"E","r","r","o","r">>, <<"m","i","c","r","o","p","i","p"," ","i","s"," ","n","o","t"," ","r","e","a","d","y","."," ","E","n","s","u","r","e"," ","e","s","s","e","n","t","i","a","l"," ","p","a","c","k","a","g","e","s"," ","a","r","e"," ","l","o","a","d","e","d"," ","f","i","r","s","t",".">>)

\* the Error loadWithPyodide throws when pyodide.loadPackage rejects with error
PyodideLoadError(packageName, error) ==
  Err(<<"E","r","r","o","r">>, <<"P","y","o","d","i","d","e"," ","f","a","i","l","e","d"," ","t","o"," ","l","o","a","d"," ">> \o getPyodidePackageName(packageName)
                   \o <<":"," ">> \o ErrString(error))

\* the Error loadWithMicropip throws when the install command rejects with error
MicropipInstallError(packageName, error) ==
  Err(<<"E","r","r","o","r">>, <<"m","i","c","r","o","p","i","p"," ","f","a","i","l","e","d"," ","t","o"," ","i","n","s","t","a","l","l"," ">> \o packageName
                   \o <<":"," ">> \o ErrString(error))

\* the cache update of a successful load that stamps the time but does not
\* enter the name in loaded
RecordSuccessUnmarked(c, packageName, time) ==
  [c EXCEPT !.loadTimestamps = MapSet(@, packageName, time)]

\* a cache update that adds the name without a load time
RecordSuccessUntimed(c, packageName, time) ==
  [c EXCEPT !.loaded = @ \cup {packageName}]

\* the cache update of a successful load
RecordSuccess(c, packageName, time) ==
  [c EXCEPT !.loaded = @ \cup {packageName},
            !.loadTimestamps = MapSet(@, packageName, time)]

\* the cache update of a failed load
RecordFailure(c, packageName, message) ==
  [c EXCEPT !.failed = MapSet(@, packageName, message)]

\* loadPackageWithStrategy returning from the cache, at once
CachedSuccess(packageName) ==
  [name |-> packageName, st |-> "cached", loader |-> "none", start |-> 0,
   result |-> Result(packageName, TRUE, Pyodide, None, 0)]

CachedFailure(packageName) ==
  [name |-> packageName, st |-> "cached", loader |-> "none", start |-> 0,
   result |-> Result(packageName, FALSE, Pyodide, Some(cache.failed[packageName]), 0)]

\* a load past the cache checks that issues the install command without
\* testing whether the installer is ready
FreshLoadUnchecked(packageName) ==
  [name |-> packageName,
   st |-> IF isPyodideBuiltinPackage(packageName) THEN "native" ELSE "installer",
   loader |-> "called",
   start |-> now,
   result |-> None]

\* loadPackageWithStrategy past the cache checks, up to its first await: the
\* classification and the call of the external loader
FreshLoad(packageName) ==
  [name |-> packageName,
   st |-> IF isPyodideBuiltinPackage(packageName) THEN "native"
          ELSE IF ~micropipReady THEN "notready"
          ELSE "installer",
   loader |-> IF isPyodideBuiltinPackage(packageName) \/ micropipReady THEN "called"
              ELSE "none",
   start |-> now,
   result |-> None]

\* loadPackageWithStrategy without the test of the failure cache: a name
\* that failed is loaded again
StartLoadRetrying(packageName) ==
  IF config.enableCaching /\ packageName \in cache.loaded
  THEN CachedSuccess(packageName)
  ELSE FreshLoad(packageName)

\* loadPackageWithStrategy without the cache tests
StartLoadUncached(packageName) == FreshLoad(packageName)

\* loadPackageWithStrategy up to its first await, in the current state:
\* the cache checks, the classification, and the call of the external loader.
\* st tells what the call is suspended on: "native" (pyodide.loadPackage),
\* "installer" (the micropip install command), "notready" (loadWithMicropip
\* has thrown); or how it has returned its result: "cached" (from the cache,
\* at once) or "settled" (after a load).  loader tells what the external
\* loader did for this call: "none" (not invoked), "called", "resolved" or
\* "rejected".  start is the call's startTime, kept while the call is suspended.
StartLoad(packageName) ==
  IF config.enableCaching /\ packageName \in cache.loaded
  THEN CachedSuccess(packageName)
  ELSE IF config.enableCaching /\ packageName \in DOMAIN cache.failed
  THEN CachedFailure(packageName)
  ELSE FreshLoad(packageName)

\* a sequential dispatch: the call for the first name only, the others
\* waiting for it
DispatchSequential(packageNames) ==
  [i \in 1..(IF Len(packageNames) > 0 THEN 1 ELSE 0) |-> StartLoad(packageNames[i])]

\* the calls loadPackages dispatches for packageNames, all before any await
Dispatch(packageNames) == [i \in 1..Len(packageNames) |-> StartLoad(packageNames[i])]

\* the names for which the dispatched calls invoke an external loader
Invocations(tasks) ==
  {tasks[i].name : i \in {j \in 1..Len(tasks) : tasks[j].st \in {"native", "installer"}}}

\* the loader invocations of a dispatch, recorded
Invoke(tasks) == invoked' = invoked \cup Invocations(tasks)

\* the calls of callers that are alive
RECURSIVE Alive(_)
Alive(ps) ==
  IF ps = {} THEN 0
  ELSE LET p == CHOOSE x \in ps : TRUE
       IN  Len(batch[p]) + Alive(ps \ {p})

\* a caller may dispatch n more calls
Room(n) == Alive(Callers) + n <= MaxLoads

\* a wait that ends with the first call that has returned
BatchSettledAny(p) ==
  \/ Len(batch[p]) = 0
  \/ \E i \in 1..Len(batch[p]) : batch[p][i].st \in {"cached", "settled"}

\* Promise.allSettled: every dispatched call has returned
BatchSettled(p) == \A i \in 1..Len(batch[p]) : batch[p][i].st \in {"cached", "settled"}

\* a result list assembled in another order than the order of dispatch
BatchResultsReversed(p) ==
  [i \in 1..Len(batch[p]) |-> batch[p][Len(batch[p]) + 1 - i].result]

\* a result list in which the first failure of the batch replaces every result
BatchResultsAborting(p) ==
  LET failures == {i \in 1..Len(batch[p]) : ~batch[p][i].result.success}
  IN  IF failures = {} THEN [i \in 1..Len(batch[p]) |-> batch[p][i].result]
      ELSE LET first == CHOOSE i \in failures : \A j \in failures : i <= j
           IN  [i \in 1..Len(batch[p]) |->
                  [batch[p][first].result EXCEPT !.packageName = batch[p][i].name]]

\* the result list loadPackages builds from the settled calls, by index
BatchResults(p) == [i \in 1..Len(batch[p]) |-> batch[p][i].result]

\* what a completed operation has returned to its caller
Returned(p) ==
  IF op[p].kind = "loadPackages" THEN Some(BatchResults(p))
  ELSE IF op[p].kind = "loadSinglePackage" THEN Some(BatchResults(p)[1])
  ELSE IF op[p].kind = "loadPackage"
       THEN Some(IF Len(batch[p]) = 0 THEN FALSE ELSE BatchResults(p)[1].success)
  ELSE None

\* an external loader settles, some time after it was called, and
\* loadPackageWithStrategy runs to its return: it records the outcome in the
\* cache and attaches the elapsed time
LoaderSettles(p, i) ==
  /\ i \in 1..Len(batch[p])
  /\ batch[p][i].st \in {"native", "installer"}
  /\ \E t1 \in now..MaxClock : now' = t1
  /\ LET t == batch[p][i]
     IN  \E ok \in BOOLEAN, e \in ExtErrors :
           /\ ok => e = CHOOSE x \in ExtErrors : TRUE
           /\ IF ok
              THEN /\ cache' = IF config.enableCaching
                               THEN RecordSuccess(cache, t.name, now')
                               ELSE cache
                   /\ batch' = [batch EXCEPT ![p][i] =
                        [@ EXCEPT !.st = "settled", !.loader = "resolved", !.start = 0,
                                  !.result = Result(t.name, TRUE,
                                     IF t.st = "native" THEN Pyodide ELSE MicropipMethod,
                                     None, now' - t.start)]]
                   /\ okSince' = okSince \cup {t.name}
                   /\ UNCHANGED failSince
              ELSE LET thrown == IF t.st = "native"
                                 THEN PyodideLoadError(t.name, e)
                                 ELSE MicropipInstallError(t.name, e)
                   IN  /\ cache' = IF config.enableCaching
                                   THEN RecordFailure(cache, t.name, thrown.message)
                                   ELSE cache
                       /\ batch' = [batch EXCEPT ![p][i] =
                            [@ EXCEPT !.st = "settled", !.loader = "rejected", !.start = 0,
                                      !.result = Result(t.name, FALSE, Pyodide,
                                         Some(thrown.message), now' - t.start)]]
                       /\ failSince' = failSince \cup {t.name}
                       /\ UNCHANGED okSince
  /\ UNCHANGED <<sideVars, evalVars, micropipReady, config, pc, op, info, sent, invoked>>

\* the rejection of loadWithMicropip (installer not ready) reaches the catch
\* block of loadPackageWithStrategy
NotReadyCaught(p, i) ==
  /\ i \in 1..Len(batch[p])
  /\ batch[p][i].st = "notready"
  /\ LET t == batch[p][i]
     IN  /\ cache' = IF config.enableCaching
                     THEN RecordFailure(cache, t.name, NotReadyError.message)
                     ELSE cache
         /\ batch' = [batch EXCEPT ![p][i] =
              [@ EXCEPT !.st = "settled", !.start = 0,
                        !.result = Result(t.name, FALSE, Pyodide,
                           Some(NotReadyError.message), now - t.start)]]
         /\ failSince' = failSince \cup {t.name}
  /\ UNCHANGED <<sideVars, evalVars, micropipReady, config, now, pc, op, info, sent, invoked, okSince>>

\* PackageManager.clearCache
clearCache ==
  /\ cache' = [loaded |-> {}, failed |-> EmptyMap, loadTimestamps |-> EmptyMap]
  /\ okSince' = {}
  /\ failSince' = {}
  /\ invoked' = {}
  /\ UNCHANGED <<sideVars, evalVars, micropipReady, config, now, pc, op, batch, info, sent>>

\* initialize() started but not awaited by the stored initialisation, which
\* is fulfilled at once while the essential packages still load
InitializeStartDetached(cfg) ==
  IF cfg.preloadEssentials /\ Len(ESSENTIAL_PACKAGES) > 0
  THEN LET tasks == <<StartLoad(ESSENTIAL_PACKAGES[1])>>
       IN  /\ Invoke(tasks)
           /\ batch' = [batch EXCEPT ![InitProc] = tasks]
           /\ pc' = [pc EXCEPT ![InitProc] = "essentials"]
           /\ pyodideReady' = IF pyodideReady = "pending" THEN "fulfilled"
                              ELSE pyodideReady
  ELSE /\ pc' = [pc EXCEPT ![InitProc] = "done"]
       /\ pyodideReady' = IF pyodideReady = "pending" THEN "fulfilled" ELSE pyodideReady
       /\ UNCHANGED <<batch, invoked>>

\* initialize() up to its first await, under configuration cfg: with
\* preloadEssentials, loadEssentialPackages starts the first essential load
InitializeStart(cfg) ==
  IF cfg.preloadEssentials /\ Len(ESSENTIAL_PACKAGES) > 0
  THEN LET tasks == <<StartLoad(ESSENTIAL_PACKAGES[1])>>
       IN  /\ Invoke(tasks)
           /\ batch' = [batch EXCEPT ![InitProc] = tasks]
           /\ pc' = [pc EXCEPT ![InitProc] = "essentials"]
           /\ UNCHANGED pyodideReady
  ELSE /\ pc' = [pc EXCEPT ![InitProc] = "done"]
       /\ pyodideReady' = IF pyodideReady = "pending" THEN "fulfilled" ELSE pyodideReady
       /\ UNCHANGED <<batch, invoked>>

\* loadEssentialPackages resumes after the load of an essential package:
\* it marks micropip ready, then loads the next essential package or returns;
\* when initialize() returns, the evaluator's pending initialisation (if this
\* manager was created by it) is fulfilled
EssentialLoaded ==
  /\ pc[InitProc] = "essentials"
  /\ BatchSettled(InitProc)
  /\ LET k == Len(batch[InitProc])
     IN  /\ micropipReady' = IF ESSENTIAL_PACKAGES[k] = Micropip THEN TRUE ELSE micropipReady
         /\ IF k < Len(ESSENTIAL_PACKAGES)
            THEN LET t == StartLoad(ESSENTIAL_PACKAGES[k + 1])
                 IN  /\ Invoke(<<t>>)
                     /\ batch' = [batch EXCEPT ![InitProc] = Append(@, t)]
                     /\ UNCHANGED <<pc, pyodideReady>>
            ELSE /\ pc' = [pc EXCEPT ![InitProc] = "done"]
                 /\ pyodideReady' = IF pyodideReady = "pending" THEN "fulfilled"
                                    ELSE pyodideReady
                 \* the results were logged; nothing keeps them
                 /\ batch' = [batch EXCEPT ![InitProc] = <<>>]
                 /\ UNCHANGED invoked
  /\ UNCHANGED <<sideVars, pyodideInstance, readyReason, packageManager, initStarts, cache,
                 config, now, op, info, sent, histVars>>

\* PackageManager.initialize called on a manager constructed directly
initialize ==
  /\ pc[InitProc] = "idle"
  /\ packageManager
  /\ InitializeStart(config)
  /\ UNCHANGED <<sideVars, pyodideInstance, readyReason, packageManager, initStarts, pmVars,
                 now, op, info, sent, histVars>>

\* a new call takes the lowest slot that carries no operation (the slots are
\* interchangeable names of the calls)
Free(p) == pc[p] = "idle" /\ \A q \in Callers : q < p => pc[q] # "idle"

\* PackageManager.loadPackages(packageNames), up to the await of allSettled
loadPackages(p, packageNames) ==
  /\ Free(p)
  /\ Room(Len(packageNames))
  /\ LET tasks == Dispatch(packageNames)
     IN  /\ Invoke(tasks)
         /\ batch' = [batch EXCEPT ![p] = tasks]
  /\ op' = [op EXCEPT ![p] = [kind |-> "loadPackages", names |-> packageNames]]
  /\ pc' = [pc EXCEPT ![p] = "loading"]
  /\ UNCHANGED <<sideVars, evalVars, pmVars, now, info, sent, histVars>>

\* PackageManager.loadPackagesFromCode(code), up to the await of allSettled
loadPackagesFromCode(p, k) ==
  /\ Free(p)
  /\ LET packageNames == PackagesOfChunk[k]
         tasks == Dispatch(packageNames)
     IN  /\ Room(Len(packageNames))
         /\ Invoke(tasks)
         /\ batch' = [batch EXCEPT ![p] = tasks]
  /\ op' = [op EXCEPT ![p] = [kind |-> "loadPackages", names |-> PackagesOfChunk[k]]]
  /\ pc' = [pc EXCEPT ![p] = "loading"]
  /\ UNCHANGED <<sideVars, evalVars, pmVars, now, info, sent, histVars>>

\* PackageManager.loadSinglePackage(packageName), up to its await
loadSinglePackage(p, packageName) ==
  /\ Free(p)
  /\ Room(1)
  /\ LET tasks == <<StartLoad(packageName)>>
     IN  /\ Invoke(tasks)
         /\ batch' = [batch EXCEPT ![p] = tasks]
  /\ op' = [op EXCEPT ![p] = [kind |-> "loadSinglePackage", names |-> <<packageName>>]]
  /\ pc' = [pc EXCEPT ![p] = "loading"]
  /\ UNCHANGED <<sideVars, evalVars, pmVars, now, info, sent, histVars>>

\* a direct call of loadPackages, loadPackagesFromCode or loadSinglePackage
\* returns Returned(p) once every call it dispatched has settled; the
\* operation is over and its slot is free again
LoadReturns(p) ==
  /\ pc[p] = "loading"
  /\ op[p].kind \in {"loadPackages", "loadSinglePackage"}
  /\ BatchSettled(p)
  /\ pc' = [pc EXCEPT ![p] = "idle"]
  /\ op' = [op EXCEPT ![p] = NoOp]
  /\ batch' = [batch EXCEPT ![p] = <<>>]
  /\ info' = [info EXCEPT ![p] = NoInfo]
  /\ UNCHANGED <<sideVars, evalVars, pmVars, now, sent, invoked, histVars>>

\* ------------------------------------------------------------------------
\* Evaluator (python-evaluator.ts)
\* ------------------------------------------------------------------------
ScriptImportError == Err(<<"E","r","r","o","r">>, <<"F","a","i","l","e","d"," ","t","o"," ","l","o","a","d"," ","P","y","o","d","i","d","e"," ","s","c","r","i","p","t">>)
NotInitializedError == Err(<<"E","r","r","o","r">>, <<"P","y","o","d","i","d","e"," ","o","r"," ","P","a","c","k","a","g","e","M","a","n","a","g","e","r"," ","n","o","t"," ","p","r","o","p","e","r","l","y"," ","i","n","i","t","i","a","l","i","z","e","d">>)
NotAvailableError == Err(<<"E","r","r","o","r">>, <<"P","y","o","d","i","d","e"," ","i","n","s","t","a","n","c","e"," ","n","o","t"," ","a","v","a","i","l","a","b","l","e">>)

\* the Error executePythonCode throws when runPythonAsync rejects with error
ExecutionError(error) ==
  Err(<<"E","r","r","o","r">>, <<"P","y","t","h","o","n"," ","e","x","e","c","u","t","i","o","n"," ","f","a","i","l","e","d",":"," ">> \o ErrString(error))

\* ensurePyodideLoaded without its test of pyodideReady: every call imports
\* the script and starts and stores an initialisation of its own
ensurePyodideLoadedUnguarded(p, inf) ==
  /\ pyodideReady' = "pending"
  /\ initStarts' = initStarts + 1
  /\ pc' = [pc EXCEPT ![p] = "awaitReady", ![InitProc] = "loadPyodide"]
  /\ info' = [inf EXCEPT ![p].await = "pyodideReady"]

\* ensurePyodideLoaded with a retry: a rejected initialisation is treated as
\* none stored, and the call starts and stores a new one
ensurePyodideLoadedRetrying(p, inf) ==
  IF pyodideReady \in {"unset", "rejected"}
  THEN /\ pyodideReady' = "pending"
       /\ initStarts' = initStarts + 1
       /\ pc' = [pc EXCEPT ![p] = "awaitReady", ![InitProc] = "loadPyodide"]
       /\ info' = [inf EXCEPT ![p].await = "pyodideReady"]
  ELSE /\ pc' = [pc EXCEPT ![p] = "awaitReady"]
       /\ info' = [inf EXCEPT ![p].await = "pyodideReady"]
       /\ UNCHANGED <<pyodideReady, initStarts>>

\* ensurePyodideLoaded as called by operation p (inf: the bookkeeping of the
\* operations, with this call entered): when no initialisation is stored,
\* importScripts runs (and may throw), then the initialisation is started and
\* stored; the caller is left with what it awaits
ensurePyodideLoaded(p, inf) ==
  IF pyodideReady = "unset"
  THEN \E imported \in BOOLEAN :
         IF imported
         THEN /\ pyodideReady' = "pending"
              /\ initStarts' = initStarts + 1
              /\ pc' = [pc EXCEPT ![p] = "awaitReady", ![InitProc] = "loadPyodide"]
              /\ info' = [inf EXCEPT ![p].await = "pyodideReady"]
         ELSE /\ pc' = [pc EXCEPT ![p] = "awaitReady"]
              /\ info' = [inf EXCEPT ![p].await = "thrown",
                                     ![p].thrown = Some(ScriptImportError)]
              /\ UNCHANGED <<pyodideReady, initStarts>>
  ELSE /\ pc' = [pc EXCEPT ![p] = "awaitReady"]
       /\ info' = [inf EXCEPT ![p].await = "pyodideReady"]
       /\ UNCHANGED <<pyodideReady, initStarts>>

\* evaluateChunk(chunk) is called: it runs up to its await of
\* ensurePyodideLoaded()
evaluateChunk(p, k) ==
  /\ Free(p)
  /\ op' = [op EXCEPT ![p] = [kind |-> "evaluateChunk", chunk |-> k]]
  /\ ensurePyodideLoaded(p, [info EXCEPT ![p].found = pyodideReady,
                                         ![p].afterFault = \E q \in Callers : info[q].guestFault])
  /\ UNCHANGED <<sideVars, pyodideInstance, readyReason, packageManager, pmVars, now, batch,
                 sent, invoked, histVars>>

\* loadPyodide settles inside the stored initialisation: on success the
\* handle is stored, the PackageManager is constructed and stored, and
\* initialize() runs up to its first await; on failure the stored
\* initialisation is rejected
LoadPyodideSettles ==
  /\ pc[InitProc] = "loadPyodide"
  /\ \E ok \in BOOLEAN, e \in ExtErrors :
       /\ ok => e = CHOOSE x \in ExtErrors : TRUE
       /\ IF ok
          THEN /\ pyodideInstance' = initStarts
               /\ packageManager' = TRUE
               \* the constructor: the fields are as they have been since Init
               /\ cache = EmptyCache /\ config = DefaultConfig /\ ~micropipReady
               /\ UNCHANGED pmVars
               /\ InitializeStart(config)
               /\ UNCHANGED readyReason
          ELSE /\ pyodideReady' = "rejected"
               /\ readyReason' = Some(e)
               /\ pc' = [pc EXCEPT ![InitProc] = "done"]
               /\ UNCHANGED <<pyodideInstance, packageManager, pmVars, batch, invoked>>
  /\ UNCHANGED <<sideVars, initStarts, now, op, info, sent, histVars>>

\* the catch block of evaluateChunk with the call rethrowing err instead of
\* reporting it: nothing is sent and the call's promise is rejected
CaughtRethrown(p, err, inf) ==
  /\ sent' = sent
  /\ pc' = [pc EXCEPT ![p] = "done"]
  /\ info' = [inf EXCEPT ![p].outcome = "rejected"]
  /\ UNCHANGED evalVars

\* the catch block of evaluateChunk with the evaluator discarding its
\* interpreter on a fault, so that the next call initialises again
CaughtResetting(p, err, inf) ==
  /\ sent' = [sent EXCEPT ![p] = Append(@, ErrorLine(err))]
  /\ pc' = [pc EXCEPT ![p] = "done"]
  /\ info' = [inf EXCEPT ![p].outcome = "resolved"]
  /\ pyodideReady' = "unset"
  /\ pyodideInstance' = 0
  /\ packageManager' = FALSE
  /\ UNCHANGED <<readyReason, initStarts>>

\* the catch block of evaluateChunk (inf: the bookkeeping of the operations
\* so far): the error line is sent and the call completes normally; the
\* module-level state of the evaluator is not touched
Caught(p, err, inf) ==
  /\ sent' = [sent EXCEPT ![p] = Append(@, ErrorLine(err))]
  /\ pc' = [pc EXCEPT ![p] = "done"]
  /\ info' = [inf EXCEPT ![p].outcome = "resolved"]
  /\ UNCHANGED evalVars

\* `await ensurePyodideLoaded()` with a caller that does not see the fault
AwaitedUnseen(p) == None

\* what `await ensurePyodideLoaded()` throws in operation p, if anything: the
\* error of importScripts, or the reason the stored initialisation rejected with
Awaited(p) ==
  IF info[p].await = "thrown" THEN info[p].thrown
  ELSE IF pyodideReady = "rejected" THEN readyReason
  ELSE None

\* evaluateChunk resumes from its await of ensurePyodideLoaded(): a fault
\* goes to the catch block; otherwise the I/O bridge is wired and
\* loadRequiredPackages runs up to its await of loadPackagesFromCode
EvalResumes(p) ==
  /\ pc[p] = "awaitReady"
  /\ op[p].kind = "evaluateChunk"
  /\ info[p].await = "pyodideReady" => pyodideReady \in {"fulfilled", "rejected"}
  /\ IF Awaited(p).has
     THEN /\ Caught(p, Awaited(p).val, info)
          /\ UNCHANGED <<batch, invoked>>
     ELSE IF pyodideInstance = 0 \/ ~packageManager
     THEN /\ Caught(p, NotInitializedError, info)
          /\ UNCHANGED <<batch, invoked>>
     ELSE LET packageNames == PackagesOfChunk[op[p].chunk]
              tasks == Dispatch(packageNames)
          IN  /\ Invoke(tasks)
              /\ batch' = [batch EXCEPT ![p] = tasks]
              /\ info' = [info EXCEPT ![p].wired = TRUE, ![p].scanned = TRUE]
              /\ pc' = [pc EXCEPT ![p] = "loading"]
              /\ UNCHANGED <<sent, evalVars>>
  /\ UNCHANGED <<sideVars, pmVars, now, op, histVars>>

\* loadRequiredPackages resumes with the results: a warning line is sent
\* when some failed; then executePythonCode calls runPythonAsync(chunk)
PackagesLoaded(p) ==
  /\ pc[p] = "loading"
  /\ op[p].kind = "evaluateChunk"
  /\ BatchSettled(p)
  /\ LET loadResults == BatchResults(p)
         failed == SelectSeq(loadResults, LAMBDA r : ~r.success)
         warned == IF Len(failed) > 0 THEN Append(sent[p], WarningLine(failed))
                   ELSE sent[p]
     IN  IF pyodideInstance = 0
         THEN /\ sent' = [sent EXCEPT ![p] = Append(warned, ErrorLine(NotAvailableError))]
              /\ pc' = [pc EXCEPT ![p] = "done"]
              /\ info' = [info EXCEPT ![p].outcome = "resolved"]
         ELSE /\ sent' = [sent EXCEPT ![p] = warned]
              /\ pc' = [pc EXCEPT ![p] = "executing"]
              /\ info' = [info EXCEPT ![p].ran = TRUE]
  /\ UNCHANGED <<sideVars, evalVars, pmVars, now, op, batch, invoked, histVars>>

\* runPythonAsync(chunk) settles: a guest fault is wrapped by
\* executePythonCode and reported by the catch block of evaluateChunk
GuestSettles(p) ==
  /\ pc[p] = "executing"
  /\ \E ok \in BOOLEAN, g \in GuestErrors :
       /\ ok => g = CHOOSE x \in GuestErrors : TRUE
       /\ IF ok
          THEN /\ pc' = [pc EXCEPT ![p] = "done"]
               /\ info' = [info EXCEPT ![p].outcome = "resolved"]
               /\ UNCHANGED <<sent, evalVars>>
          ELSE Caught(p, ExecutionError(g), [info EXCEPT ![p].guestFault = TRUE])
  /\ UNCHANGED <<sideVars, pmVars, now, op, batch, invoked, histVars>>

\* PythonEvaluator.loadPackage(packageName), up to its await
loadPackage(p, packageName) ==
  /\ Free(p)
  /\ op' = [op EXCEPT ![p] = [kind |-> "loadPackage"]]
  /\ IF ~packageManager
     THEN /\ pc' = [pc EXCEPT ![p] = "done"]
          /\ info' = [info EXCEPT ![p].outcome = "resolved"]
          /\ UNCHANGED <<batch, invoked>>
     ELSE LET tasks == <<StartLoad(packageName)>>
          IN  /\ Invoke(tasks)
              /\ batch' = [batch EXCEPT ![p] = tasks]
              /\ pc' = [pc EXCEPT ![p] = "loading"]
              /\ UNCHANGED info
  /\ UNCHANGED <<sideVars, evalVars, pmVars, now, sent, histVars>>

\* PythonEvaluator.loadPackage resumes with the result and returns its success
LoadPackageReturns(p) ==
  /\ pc[p] = "loading"
  /\ op[p].kind = "loadPackage"
  /\ BatchSettled(p)
  /\ info' = [info EXCEPT ![p].outcome = "resolved"]
  /\ pc' = [pc EXCEPT ![p] = "done"]
  /\ UNCHANGED <<sideVars, evalVars, pmVars, now, op, batch, sent, invoked, histVars>>

\* ------------------------------------------------------------------------
\* Specifications
\* ------------------------------------------------------------------------
InitCommon ==
  /\ readyReason = None
  /\ cache = EmptyCache
  /\ micropipReady = FALSE
  /\ now = 0
  /\ pc = [p \in Procs |-> "idle"]
  /\ op = [p \in Procs |-> NoOp]
  /\ batch = [p \in Procs |-> <<>>]
  /\ info = [p \in Procs |-> NoInfo]
  /\ sent = [p \in Procs |-> <<>>]
  /\ invoked = {}
  /\ okSince = {}
  /\ failSince = {}

\* nothing is being checked on its own
SideIdle ==
  /\ io = NoIO
  /\ arg = None
  /\ res = None

\* the worker after the module is loaded: nothing initialised yet
Init ==
  /\ InitCommon
  /\ SideIdle
  /\ pyodideInstance = 0
  /\ pyodideReady = "unset"
  /\ packageManager = FALSE
  /\ config = DefaultConfig
  /\ initStarts = 0

Next ==
  \/ \E p \in Callers, k \in 1..Len(CHUNKS) : evaluateChunk(p, k)
  \/ LoadPyodideSettles
  \/ EssentialLoaded
  \/ \E p \in Callers : EvalResumes(p)
  \/ \E p \in Procs, i \in 1..(MaxBatch + 1) : LoaderSettles(p, i)
  \/ \E p \in Procs, i \in 1..(MaxBatch + 1) : NotReadyCaught(p, i)
  \/ \E p \in Callers : PackagesLoaded(p)
  \/ \E p \in Callers : GuestSettles(p)
  \/ \E p \in Callers, n \in PkgNames : loadPackage(p, n)
  \/ \E p \in Callers : LoadPackageReturns(p)

Spec == Init /\ [][Next]_vars

\* a PackageManager constructed directly on a runtime, with caching enabled,
\* before initialize() is called
InitPM ==
  /\ InitCommon
  /\ SideIdle
  /\ pyodideInstance = 1
  /\ pyodideReady = "unset"
  /\ packageManager = TRUE
  /\ config \in [enableCaching : {TRUE}, preloadEssentials : BOOLEAN]
  /\ initStarts = 0

NextPM ==
  \/ initialize
  \/ EssentialLoaded
  \/ \E p \in Callers, names \in NameLists : loadPackages(p, names)
  \/ \E p \in Callers, k \in 1..Len(CHUNKS) : loadPackagesFromCode(p, k)
  \/ \E p \in Callers, n \in PkgNames : loadSinglePackage(p, n)
  \/ \E p \in Procs, i \in 1..(MaxBatch + 1) : LoaderSettles(p, i)
  \/ \E p \in Procs, i \in 1..(MaxBatch + 1) : NotReadyCaught(p, i)
  \/ \E p \in Callers : LoadReturns(p)
  \/ clearCache

SpecPM == InitPM /\ [][NextPM]_vars

\* every loader call that was made settles, and every continuation that can
\* run does run (the event loop): the fault of a dispatch is caught, and a
\* wait that is over resumes its caller
LoadersSettle ==
  /\ \A p \in Procs, i \in 1..(MaxBatch + 1) :
       WF_vars(LoaderSettles(p, i)) /\ WF_vars(NotReadyCaught(p, i))
  /\ \A p \in Callers : WF_vars(LoadReturns(p))
  /\ WF_vars(EssentialLoaded)

\* the PackageManager driven through initialize and loadPackages alone
NextBatch ==
  \/ initialize
  \/ EssentialLoaded
  \/ \E p \in Callers, names \in NameLists : loadPackages(p, names)
  \/ \E p \in Procs, i \in 1..(MaxBatch + 1) : LoaderSettles(p, i)
  \/ \E p \in Procs, i \in 1..(MaxBatch + 1) : NotReadyCaught(p, i)
  \/ \E p \in Callers : LoadReturns(p)

SpecBatch == InitPM /\ [][NextBatch]_vars /\ LoadersSettle

TypeOK ==
  /\ pyodideInstance \in 0..1
  /\ pyodideReady \in {"unset", "pending", "fulfilled", "rejected"}
  /\ packageManager \in BOOLEAN
  /\ micropipReady \in BOOLEAN
  /\ cache.loaded \subseteq PkgNames
  /\ DOMAIN cache.failed \subseteq PkgNames
  /\ DOMAIN cache.loadTimestamps \subseteq PkgNames
  /\ now \in 0..MaxClock
  /\ \A p \in Procs : pc[p] \in {"idle", "loadPyodide", "essentials", "awaitReady",
                                  "loading", "executing", "done"}
  /\ invoked \subseteq PkgNames


\* ------------------------------------------------------------------------
\* The I/O bridge of an executing chunk (setupIOHandling)
\* ------------------------------------------------------------------------
\* the interpreter writes and reads at most MaxEvents times in one execution
MaxEvents == 3

\* the host holds at most MaxInputs lines ready
MaxInputs == 1

\* JavaScript values the guest can pass to input(): val is the text of the value
Undefined == [type |-> "undefined", val |-> <<>>]
Num(s) == [type |-> "number", val |-> s]
Str(s) == [type |-> "string", val |-> s]
Prompts == {Undefined, Num(<<"7">>), Str(<<>>), Str(<<"?"," ">>)}

\* the texts the interpreter writes, the empty text included
Texts == {<<>>, <<"h","i">>, <<"o","k">>}

\* the channels of the interpreter
Channels == {"stdout", "stderr"}

\* the lines the host provides
Lines == {<<>>, <<"x">>}

\* the interpreter may write or read once more
MayAct(p) ==
  /\ pc[p] = "executing"
  /\ info[p].wired
  /\ Len(io.emitted) + Len(io.calls) < MaxEvents

\* the handler setupIOHandling installs with setStdout({batched}): out is
\* what was passed to sendOutput so far
batched(out, text) == IF Len(text) > 0 THEN Append(out, text) ELSE out

\* what reaches sendOutput when the interpreter writes text on channel:
\* setupIOHandling installs a handler for stdout only
Forwarded(out, channel, text) ==
  IF channel = "stdout" THEN batched(out, text) ELSE out

\* the interpreter writes text on one of its channels while the chunk of
\* operation p executes
InterpreterWrites(p, channel, text) ==
  /\ MayAct(p)
  /\ io' = [io EXCEPT !.emitted = Append(@, [channel |-> channel, text |-> text])]
  /\ sent' = [sent EXCEPT ![p] = Forwarded(@, channel, text)]
  /\ UNCHANGED <<evalVars, pmVars, now, pc, op, batch, info, invoked, histVars, arg, res>>

\* inputSync with `prompt.length > 0` left out of its test
ForwardsPromptAlways(prompt) == prompt.type = "string"

\* inputSync: typeof prompt === "string" && prompt.length > 0
ForwardsPrompt(prompt) == prompt.type = "string" /\ Len(prompt.val) > 0

\* conductor.tryRequestInput(): the first line the host holds ready, if any
tryRequestInput(inputs) == IF Len(inputs) > 0 THEN Some(Head(inputs)) ELSE None

\* the guest calls input(prompt), which is inputSync: the prompt is
\* forwarded, one line is requested, and the call returns at once
inputSync(p, prompt) ==
  /\ MayAct(p)
  /\ LET line == tryRequestInput(io.inputs)
         did == (IF ForwardsPrompt(prompt) THEN <<"sendOutput">> ELSE <<>>)
                  \o <<"tryRequestInput">>
     IN  /\ sent' = [sent EXCEPT ![p] =
                       IF ForwardsPrompt(prompt) THEN Append(@, prompt.val) ELSE @]
         /\ io' = [io EXCEPT
                     !.inputs = IF line.has THEN Tail(@) ELSE @,
                     !.calls = Append(@, [prompt |-> prompt, did |-> did,
                                          returned |-> IF line.has THEN line.val
                                                       ELSE <<>>])]
  /\ UNCHANGED <<evalVars, pmVars, now, pc, op, batch, info, invoked, histVars, arg, res>>

\* the host makes a line available to tryRequestInput
HostProvides(line) ==
  /\ Len(io.inputs) < MaxInputs
  /\ io' = [io EXCEPT !.inputs = Append(@, line)]
  /\ UNCHANGED <<evalVars, pmVars, now, pc, op, batch, info, sent, invoked, histVars,
                 arg, res>>

\* the first evaluateChunk call of a worker has initialised the interpreter,
\* found nothing to load for its chunk (the second of CHUNKS) and is
\* executing it
InitIO ==
  /\ pyodideInstance = 1
  /\ pyodideReady = "fulfilled"
  /\ readyReason = None
  /\ packageManager = TRUE
  /\ initStarts = 1
  /\ cache = RecordSuccess(EmptyCache, Micropip, 0)
  /\ micropipReady = TRUE
  /\ config = DefaultConfig
  /\ now = 0
  /\ pc = [p \in Procs |-> IF p = InitProc THEN "done"
                           ELSE IF p = 1 THEN "executing" ELSE "idle"]
  /\ op = [p \in Procs |-> IF p = 1 THEN [kind |-> "evaluateChunk", chunk |-> 2]
                           ELSE NoOp]
  /\ batch = [p \in Procs |-> <<>>]
  /\ info = [p \in Procs |->
               IF p = 1
               THEN [NoInfo EXCEPT !.await = "pyodideReady", !.found = "unset",
                                   !.wired = TRUE, !.scanned = TRUE, !.ran = TRUE]
               ELSE NoInfo]
  /\ sent = [p \in Procs |-> <<>>]
  /\ invoked = {Micropip}
  /\ okSince = {Micropip}
  /\ failSince = {}
  /\ io = NoIO
  /\ arg = None
  /\ res = None

NextIO ==
  \/ \E p \in Callers, channel \in Channels, text \in Texts :
       InterpreterWrites(p, channel, text)
  \/ \E p \in Callers, prompt \in Prompts : inputSync(p, prompt)
  \/ \E line \in Lines : HostProvides(line)
  \/ \E p \in Callers : GuestSettles(p)

SpecIO == InitIO /\ [][NextIO]_vars

\* ------------------------------------------------------------------------
\* The classification of package names, on its own
\* ------------------------------------------------------------------------
\* the names of the alias table and the names it maps to
AliasKeys == {e[1] : e \in SPECIAL_HANDLING_PACKAGES}
AliasTargets == {e[2] : e \in SPECIAL_HANDLING_PACKAGES}

\* the names classified: every name of the two tables, and names of neither
\* (an unknown name, the empty name, a name in another case, a prefix of a
\* key, a standard-library name)
ClassifiedNames ==
  PYODIDE_BUILTIN_PACKAGES \cup AliasKeys \cup AliasTargets
    \cup {Foo, <<>>, <<"N","u","m","p","y">>, <<"c","v">>, <<"o","s">>}

\* nothing computed yet for the name
NoClassification == [builtin |-> None, actual |-> None, strategy |-> None]

\* a PackageManager on which no load is in flight and whose cache is empty,
\* before initialize() (installer not ready) or after initialize() and
\* clearCache() (installer ready), with a name to classify
InitClassify ==
  /\ pyodideInstance = 1
  /\ pyodideReady = "unset"
  /\ readyReason = None
  /\ packageManager = TRUE
  /\ initStarts = 0
  /\ cache = EmptyCache
  /\ micropipReady \in BOOLEAN
  /\ config = DefaultConfig
  /\ now = 0
  /\ pc = [p \in Procs |-> IF p = InitProc /\ micropipReady THEN "done" ELSE "idle"]
  /\ op = [p \in Procs |-> NoOp]
  /\ batch = [p \in Procs |-> <<>>]
  /\ info = [p \in Procs |-> NoInfo]
  /\ sent = [p \in Procs |-> <<>>]
  /\ invoked = {}
  /\ okSince = {}
  /\ failSince = {}
  /\ io = NoIO
  /\ arg \in {Some(n) : n \in ClassifiedNames}
  /\ res = NoClassification

\* isPyodideBuiltinPackage is applied to the name
Classify ==
  /\ arg.has
  /\ ~res.builtin.has
  /\ res' = [res EXCEPT !.builtin = Some(isPyodideBuiltinPackage(arg.val))]
  /\ UNCHANGED <<evalVars, pmVars, now, pc, op, batch, info, sent, invoked, histVars,
                 io, arg>>

\* getPyodidePackageName is applied to the name
Resolve ==
  /\ arg.has
  /\ ~res.actual.has
  /\ res' = [res EXCEPT !.actual = Some(getPyodidePackageName(arg.val))]
  /\ UNCHANGED <<evalVars, pmVars, now, pc, op, batch, info, sent, invoked, histVars,
                 io, arg>>

\* loadPackageWithStrategy chooses the loader for the name, which is not cached
Route ==
  /\ arg.has
  /\ ~res.strategy.has
  /\ res' = [res EXCEPT !.strategy = Some(FreshLoad(arg.val).st)]
  /\ UNCHANGED <<evalVars, pmVars, now, pc, op, batch, info, sent, invoked, histVars,
                 io, arg>>

NextClassify ==
  \/ Classify
  \/ Resolve
  \/ Route

SpecClassify == InitClassify /\ [][NextClassify]_vars

\* ------------------------------------------------------------------------
\* The import scanner, on its own
\* ------------------------------------------------------------------------
\* a chunk has at most MaxLines lines
MaxLines == 2

\* the leading whitespace of a statement
Indents == {<<>>, <<" "," ">>}

\* dotted paths, as their segments
Paths == { << <<"a">>, <<"b">>, <<"c">> >>, << <<"o","s">>, <<"p","a","t","h">> >>, << <<"n","u","m","p","y">> >>,
           << <<"x">>, <<"y">> >> }

\* the optional ` as <identifier>` of a plain import
Aliases == {None, Some(<<"d">>)}

\* the item lists of a from-import, each item a name with an optional alias
ItemLists ==
  { << [name |-> <<"b","a","r">>, alias |-> None] >>,
    << [name |-> <<"m">>, alias |-> Some(<<"n">>)], [name |-> <<"p">>, alias |-> None] >>,
    << [name |-> <<"*">>, alias |-> None] >> }

\* the lines of a chunk, by their form: plain imports, from-imports, and
\* lines that are neither (a comment, a blank line, an assignment)
ImportLines ==
  { [kind |-> "import", indent |-> i, path |-> p, alias |-> a, items |-> <<>>,
     text |-> <<>>] : i \in Indents, p \in Paths, a \in Aliases }

FromLines ==
  { [kind |-> "from", indent |-> <<>>, path |-> p, alias |-> None, items |-> it,
     text |-> <<>>] : p \in Paths, it \in ItemLists }

CommentLines ==
  { [kind |-> "comment", indent |-> <<>>, path |-> <<>>, alias |-> None, items |-> <<>>,
     text |-> t] : t \in { <<"#"," ","i","m","p","o","r","t"," ","f","o","o">>, <<" "," ","#","f","r","o","m"," ","a"," ","i","m","p","o","r","t"," ","b">> } }

BlankLines ==
  { [kind |-> "blank", indent |-> <<>>, path |-> <<>>, alias |-> None, items |-> <<>>,
     text |-> t] : t \in { <<>>, <<" "," ">> } }

\* lines that match neither import pattern
UnmatchedLines ==
  { [kind |-> "other", indent |-> <<>>, path |-> <<>>, alias |-> None, items |-> <<>>,
     text |-> t] : t \in { <<"i","m","p","o","r","t","a","n","t"," ","="," ","1">>, <<"f","r","o","m"," ","x"," ","i","m","p","o","r","t">> } }

OtherLines == CommentLines \cup BlankLines \cup UnmatchedLines

Programs ==
  UNION {[1..n -> ImportLines \cup FromLines \cup OtherLines] : n \in 1..MaxLines}

\* the text of an item, of a line and of a chunk
ItemText(item) ==
  IF item.alias.has THEN item.name \o <<" ","a","s"," ">> \o item.alias.val ELSE item.name

LineText(l) ==
  IF l.kind = "import"
  THEN l.indent \o <<"i","m","p","o","r","t"," ">> \o Join(l.path, <<".">>)
         \o (IF l.alias.has THEN <<" ","a","s"," ">> \o l.alias.val ELSE <<>>)
  ELSE IF l.kind = "from"
  THEN l.indent \o <<"f","r","o","m"," ">> \o Join(l.path, <<".">>) \o <<" ","i","m","p","o","r","t"," ">>
         \o Join([k \in 1..Len(l.items) |-> ItemText(l.items[k])], <<","," ">>)
  ELSE l.text

CodeText(lines) == Join([k \in 1..Len(lines) |-> LineText(lines[k])], <<"\n">>)

\* nothing computed yet for the chunk
NoScan == [imports |-> None, packages |-> None]

\* a worker at module load, with a chunk to scan
InitScan ==
  /\ InitCommon
  /\ pyodideInstance = 0
  /\ pyodideReady = "unset"
  /\ packageManager = FALSE
  /\ config = DefaultConfig
  /\ initStarts = 0
  /\ io = NoIO
  /\ arg \in {Some(lines) : lines \in Programs}
  /\ res = NoScan

\* loadPackagesFromCode: const imports = extractImports(code)
ScanCode ==
  /\ arg.has
  /\ ~res.imports.has
  /\ res' = [res EXCEPT !.imports = Some(extractImports(CodeText(arg.val)))]
  /\ UNCHANGED <<evalVars, pmVars, now, pc, op, batch, info, sent, invoked, histVars,
                 io, arg>>

\* loadPackagesFromCode: const packageNames = extractPackageNames(imports)
CollectNames ==
  /\ res.imports.has
  /\ ~res.packages.has
  /\ res' = [res EXCEPT !.packages = Some(extractPackageNames(res.imports.val))]
  /\ UNCHANGED <<evalVars, pmVars, now, pc, op, batch, info, sent, invoked, histVars,
                 io, arg>>

NextScan ==
  \/ ScanCode
  \/ CollectNames

SpecScan == InitScan /\ [][NextScan]_vars

\* ------------------------------------------------------------------------
\* The extraction of package names from declarations, on its own
\* ------------------------------------------------------------------------
\* a list has at most MaxDecls declarations
MaxDecls == 3

\* the declarations handed to extractPackageNames: standard-library modules
\* and others, imported plainly, selectively, or by a dotted path
DeclForms ==
  { [path |-> << <<"o","s">> >>, isFromImport |-> FALSE],
    [path |-> << <<"o","s">>, <<"p","a","t","h">> >>, isFromImport |-> TRUE],
    [path |-> << <<"j","s","o","n">> >>, isFromImport |-> TRUE],
    [path |-> << <<"n","u","m","p","y">>, <<"r","a","n","d","o","m">> >>, isFromImport |-> FALSE],
    [path |-> << <<"f","o","o">> >>, isFromImport |-> TRUE],
    [path |-> << <<"f","o","o">> >>, isFromImport |-> FALSE] }

DeclLists == UNION {[1..n -> DeclForms] : n \in 0..MaxDecls}

\* the ImportStatement objects of a list of forms
Declarations(forms) ==
  [k \in 1..Len(forms) |->
     [module |-> Join(forms[k].path, <<".">>),
      alias |-> None,
      items |-> IF forms[k].isFromImport THEN Some(<< <<"x">> >>) ELSE None,
      isFromImport |-> forms[k].isFromImport,
      line |-> k]]

\* the ways to permute a list of n elements, or to repeat one of them
Rearrangements(n) ==
  {f \in UNION {[1..m -> 1..n] : m \in n..(n + 1)} :
     \A i \in 1..n : \E j \in 1..Len(f) : f[j] = i}

\* the list rearranged
Rearranged(list, f) == [j \in 1..Len(f) |-> list[f[j]]]

\* nothing computed yet for the list
NoNames == [packages |-> None, rearranged |-> None, again |-> None]

\* a worker at module load, with a list of declarations
InitNames ==
  /\ InitCommon
  /\ pyodideInstance = 0
  /\ pyodideReady = "unset"
  /\ packageManager = FALSE
  /\ config = DefaultConfig
  /\ initStarts = 0
  /\ io = NoIO
  /\ arg \in {Some(forms) : forms \in DeclLists}
  /\ res = NoNames

\* extractPackageNames is applied to the list
ExtractNames ==
  /\ arg.has
  /\ ~res.packages.has
  /\ res' = [res EXCEPT !.packages = Some(extractPackageNames(Declarations(arg.val)))]
  /\ UNCHANGED <<evalVars, pmVars, now, pc, op, batch, info, sent, invoked, histVars,
                 io, arg>>

\* extractPackageNames is applied to the list once more
ExtractNamesAgain ==
  /\ res.packages.has
  /\ ~res.again.has
  /\ res' = [res EXCEPT !.again = Some(extractPackageNames(Declarations(arg.val)))]
  /\ UNCHANGED <<evalVars, pmVars, now, pc, op, batch, info, sent, invoked, histVars,
                 io, arg>>

\* extractPackageNames is applied to the list rearranged by f
ExtractRearranged(f) ==
  /\ arg.has
  /\ f \in Rearrangements(Len(arg.val))
  /\ ~res.rearranged.has
  /\ res' = [res EXCEPT !.rearranged =
               Some([by |-> f,
                     packages |-> extractPackageNames(
                                    Rearranged(Declarations(arg.val), f))])]
  /\ UNCHANGED <<evalVars, pmVars, now, pc, op, batch, info, sent, invoked, histVars,
                 io, arg>>

NextNames ==
  \/ ExtractNames
  \/ ExtractNamesAgain
  \/ \E f \in UNION {Rearrangements(n) : n \in 0..MaxDecls} : ExtractRearranged(f)

SpecNames == InitNames /\ [][NextNames]_vars

\* ------------------------------------------------------------------------
\* The accessors of the PackageManager
\* ------------------------------------------------------------------------
\* what an accessor returned: call names the accessor; loaded, failed and
\* loadTimes are the fields of the object getStats returns; is is the boolean
\* isPackageLoaded returns; map is the Map getFailedPackages returns and ref
\* tells whether that Map is the cache's own object ("cache") or a new one
\* ("copy"); touched: the caller has changed the Map since
NoAnswer ==
  [call |-> "none", loaded |-> 0, failed |-> 0, loadTimes |-> EmptyMap, is |-> FALSE,
   map |-> EmptyMap, ref |-> "none", touched |-> FALSE]

\* PackageManager.getStats
getStats(c) ==
  [NoAnswer EXCEPT !.call = "getStats",
                   !.loaded = Cardinality(c.loaded),
                   !.failed = Cardinality(DOMAIN c.failed),
                   !.loadTimes = c.loadTimestamps]

\* PackageManager.isPackageLoaded
isPackageLoaded(c, packageName) ==
  [NoAnswer EXCEPT !.call = "isPackageLoaded", !.is = packageName \in c.loaded]

\* getFailedPackages handing out the Map of the cache itself
getFailedPackagesShared(c) ==
  [NoAnswer EXCEPT !.call = "getFailedPackages", !.map = c.failed, !.ref = "cache"]

\* PackageManager.getFailedPackages: new Map(this.cache.failed)
getFailedPackages(c) ==
  [NoAnswer EXCEPT !.call = "getFailedPackages", !.map = c.failed, !.ref = "copy"]

\* a caller calls getStats
CallGetStats ==
  /\ res' = Some(getStats(cache))
  /\ res' # res
  /\ UNCHANGED <<evalVars, pmVars, now, pc, op, batch, info, sent, invoked, histVars,
                 io, arg>>

\* a caller calls isPackageLoaded(packageName)
CallIsPackageLoaded(packageName) ==
  /\ res' = Some(isPackageLoaded(cache, packageName))
  /\ arg' = Some(packageName)
  /\ <<arg', res'>> # <<arg, res>>
  /\ UNCHANGED <<evalVars, pmVars, now, pc, op, batch, info, sent, invoked, histVars, io>>

\* a caller calls getFailedPackages
CallGetFailedPackages ==
  /\ res' = Some(getFailedPackages(cache))
  /\ res' # res
  /\ UNCHANGED <<evalVars, pmVars, now, pc, op, batch, info, sent, invoked, histVars,
                 io, arg>>

\* the map without the key
MapDelete(m, k) == [n \in DOMAIN m \ {k} |-> m[n]]

\* the caller deletes a key from the Map getFailedPackages returned; the
\* cache changes with it when the Map is the cache's own
MutateReturned(packageName) ==
  /\ res.has
  /\ res.val.call = "getFailedPackages"
  /\ packageName \in DOMAIN res.val.map
  /\ res' = Some([res.val EXCEPT !.map = MapDelete(@, packageName), !.touched = TRUE])
  /\ cache' = IF res.val.ref = "cache"
              THEN [cache EXCEPT !.failed = MapDelete(@, packageName)]
              ELSE cache
  /\ UNCHANGED <<evalVars, micropipReady, config, now, pc, op, batch, info, sent,
                 invoked, histVars, io, arg>>

\* a PackageManager that is initialised, loads single packages one after
\* the other, is asked about its cache and has its cache cleared
NextAccess ==
  \/ initialize
  \/ EssentialLoaded
  \/ \E n \in PkgNames : loadSinglePackage(1, n)
  \/ \E p \in Procs, i \in 1..(MaxBatch + 1) : LoaderSettles(p, i)
  \/ \E p \in Procs, i \in 1..(MaxBatch + 1) : NotReadyCaught(p, i)
  \/ \E p \in Callers : LoadReturns(p)
  \/ clearCache
  \/ CallGetStats
  \/ \E n \in PkgNames : CallIsPackageLoaded(n)
  \/ CallGetFailedPackages
  \/ \E n \in PkgNames : MutateReturned(n)

SpecAccess == InitPM /\ [][NextAccess]_vars
\* ------------------------------------------------------------------------
\* The text handed to the classifier and to the installer
\* ------------------------------------------------------------------------
\* lines of a chunk whose text tries to reach the install command: quotes,
\* brackets, dots, blanks and other characters around the module path
HostileLines ==
  { <<"i","m","p","o","r","t"," ","f","o","o","\"",")">>,
    <<"i","m","p","o","r","t"," ","f","o","o","\"",")",";"," ","i","m","p","o","r","t"," ","o","s",";"," ","o","s",".","s","y","s","t","e","m","(","\"","x">>,
    <<"i","m","p","o","r","t"," ","\"","f","o","o","\"">>,
    <<"i","m","p","o","r","t"," ",".","f","o","o">>,
    <<"i","m","p","o","r","t"," ","f","o","o",".",".","b","a","r">>,
    <<"i","m","p","o","r","t"," ","f","o","o",".","\"","b","a","r","\"">>,
    <<"i","m","p","o","r","t"," ","f","o","o","-","b","a","r">>,
    <<"i","m","p","o","r","t"," "," ","f","o","o"," ","b","a","r">>,
    <<"i","m","p","o","r","t"," ","f","o","o","\t","a","s"," ","b","\"">>,
    <<"i","m","p","o","r","t"," ","9","a">>,
    <<"i","m","p","o","r","t"," ","_","x",".","y","'">>,
    <<"i","m","p","o","r","t"," ","n","u","m","p","y","\\","n">>,
    <<"i","m","p","o","r","t"," ","o","s","\"",")">>,
    <<"f","r","o","m"," ","f","o","o","\"",")"," ","i","m","p","o","r","t"," ","x">>,
    <<"f","r","o","m"," ","f","o","o",".","b","a","r"," ","i","m","p","o","r","t"," ","x","\"",")">>,
    <<"f","r","o","m"," ","b","a","r"," ","i","m","p","o","r","t"," ","\"","x","\"">>,
    <<"f","r","o","m"," ","."," ","i","m","p","o","r","t"," ","f","o","o">>,
    <<" "," ","i","m","p","o","r","t"," ","b","a","z",";","\"">> }

\* the chunks: one or two of these lines
HostileChunks ==
  HostileLines \cup {a \o <<"\n">> \o b : a, b \in HostileLines}

\* the text around the name in the Python program loadWithMicropip runs
CommandPrefix == <<"\n"," "," "," "," "," "," "," "," ","i","m","p","o","r","t"," ","m","i","c","r","o","p","i","p","\n"," "," "," "," "," "," "," "," ","a","w","a","i","t"," ","m","i","c","r","o","p","i","p",".","i","n","s","t","a","l","l","(","\"">>
CommandSuffix == <<"\"",")","\n"," "," "," "," "," "," ">>

\* the template literal of loadWithMicropip with packageName put in
InstallCommand(packageName) == CommandPrefix \o packageName \o CommandSuffix

\* nothing analysed yet: the names extracted from the chunk, the names given
\* to isPyodideBuiltinPackage, and the programs given to runPythonAsync
NoInstall == [packages |-> None, classified |-> <<>>, commands |-> <<>>]

\* a manager constructed on a runtime, with a chunk whose packages it is
\* going to load
InitInstall ==
  /\ InitCommon
  /\ pyodideInstance = 1
  /\ pyodideReady = "unset"
  /\ packageManager = TRUE
  /\ config = DefaultConfig
  /\ initStarts = 0
  /\ io = NoIO
  /\ arg \in {Some(code) : code \in HostileChunks}
  /\ res = NoInstall

\* the text arguments of loadPackagesFromCode(code) up to its await: the
\* names extractPackageNames gives, each handed to the classifier by
\* loadPackageWithStrategy, and for each name that is not natively available
\* the program loadWithMicropip hands to runPythonAsync (none while micropip
\* is not ready: loadWithMicropip throws first)
AnalyzeAndDispatch ==
  /\ arg.has
  /\ ~res.packages.has
  /\ LET packageNames == extractPackageNames(extractImports(arg.val))
         viaInstaller == SelectSeq(packageNames, LAMBDA n : ~isPyodideBuiltinPackage(n))
     IN  res' = [packages |-> Some(packageNames),
                 classified |-> packageNames,
                 commands |-> IF micropipReady
                              THEN [k \in 1..Len(viaInstaller) |-> InstallCommand(viaInstaller[k])]
                              ELSE <<>>]
  /\ UNCHANGED <<evalVars, pmVars, now, pc, op, batch, info, sent, invoked, histVars,
                 io, arg>>

NextInstall ==
  \/ initialize
  \/ \E p \in Procs, i \in 1..(MaxBatch + 1) : LoaderSettles(p, i)
  \/ EssentialLoaded
  \/ AnalyzeAndDispatch

SpecInstall == InitInstall /\ [][NextInstall]_vars
\* ------------------------------------------------------------------------
\* Properties
\* ------------------------------------------------------------------------
\* the calls operation p dispatches in the step at hand
NewTasks(p) == (Len(batch[p]) + 1)..Len(batch'[p])

\* the loader calls of the step at hand that invoke an external loader for n
NewInvocations(n) ==
  {x \in Procs \X (1..(MaxBatch + 1)) :
     /\ x[2] \in NewTasks(x[1])
     /\ batch'[x[1]][x[2]].name = n
     /\ batch'[x[1]][x[2]].st \in {"native", "installer"}}

\* a load of n produces a success in the step at hand
RecordsSuccess(n) ==
  \E p \in Procs : \E i \in DOMAIN batch[p] \cap DOMAIN batch'[p] :
    /\ batch[p][i].name = n
    /\ batch[p][i].st \in {"native", "installer"}
    /\ batch'[p][i].st = "settled"
    /\ batch'[p][i].result.success

\* operation p is a call of evaluateChunk
Called(p) == op[p].kind = "evaluateChunk"

\* operation p is called in the step at hand
CallStarts(p) == pc[p] = "idle" /\ pc'[p] = "awaitReady"

\* the fault ensurePyodideLoaded propagates to operation p, if any
FaultAwaited(p) ==
  IF info[p].await = "thrown" THEN info[p].thrown
  ELSE IF info[p].await = "pyodideReady" /\ pyodideReady = "rejected" THEN readyReason
  ELSE None

\* the error lines among the lines operation p has sent
ErrorLines(p) ==
  {k \in 1..Len(sent[p]) : StartsWith(sent[p][k], <<"[","p","y","t","h","o","n"," ","e","r","r","o","r","]"," ">>)}

\* C1: in every reachable state of a PackageManager, whatever the
\* interleaving of loads and clearCache, no package name is both in
\* cache.loaded and a key of cache.failed
LoadedFailedDisjoint == cache.loaded \cap DOMAIN cache.failed = {}

\* C2: whenever a load of p records a success, p is in loaded afterwards and
\* no failure entry for p remains, even if one had been recorded before
SuccessRemovesFailure ==
  [][\A n \in PkgNames :
       RecordsSuccess(n) => n \in cache'.loaded /\ n \notin DOMAIN cache'.failed]_vars

\* C3 as stated: the initialisation is started at most once, every caller
\* of ensurePyodideLoaded waits on that one pending operation, and the
\* interpreter handle, once set, is never replaced
EveryCallerAwaitsTheInitialisation ==
  /\ [](/\ initStarts <= 1
        /\ \A p \in Callers : Called(p) => info[p].await = "pyodideReady")
  /\ [][pyodideInstance # 0 => pyodideInstance' = pyodideInstance]_vars

\* C3: the initialisation is started at most once and is stored exactly when
\* it has been started; a caller either waits on that one stored operation or,
\* having found none stored, was thrown the error of its own script import;
\* the interpreter handle, once set, is never replaced
SingleInitialisation ==
  /\ [](/\ initStarts <= 1
        /\ pyodideReady = "unset" <=> initStarts = 0
        /\ \A p \in Callers :
             Called(p) =>
               \/ info[p].await = "pyodideReady"
               \/ /\ info[p].await = "thrown"
                  /\ info[p].found = "unset"
                  /\ info[p].thrown = Some(ScriptImportError))
  /\ [][pyodideInstance # 0 => pyodideInstance' = pyodideInstance]_vars

\* two callers wait on the one pending initialisation, the second having
\* found it stored
TwoCallersOneInitialisation ==
  \E p, q \in Callers :
    /\ p # q
    /\ pc[p] = "awaitReady" /\ info[p].await = "pyodideReady"
    /\ pc[q] = "awaitReady" /\ info[q].await = "pyodideReady"
    /\ info[q].found = "pending"
    /\ pyodideReady = "pending"
    /\ initStarts = 1

\* an initialisation attempt has faulted: the stored initialisation rejected,
\* or the script import of some call threw
InitFaulted ==
  pyodideReady = "rejected" \/ \E p \in Callers : info[p].await = "thrown"

\* C4 as stated: once an initialisation attempt has faulted (script import or
\* loadPyodide), no later call starts a new attempt, and every later call
\* fails
NoAttemptAfterAnyFault ==
  [][InitFaulted =>
       /\ initStarts' = initStarts
       /\ \A p \in Callers : CallStarts(p) => FaultAwaited(p)'.has]_vars

\* C4: once the stored initialisation has rejected, it stays rejected with
\* its reason, no later call starts a new attempt, and every call made or
\* resumed later fails with that reason: its error line is sent and the chunk
\* is neither scanned nor executed
NoAttemptAfterRejection ==
  [][pyodideReady = "rejected" =>
       /\ initStarts' = initStarts
       /\ pyodideReady' = "rejected"
       /\ readyReason' = readyReason
       /\ \A p \in Callers :
            /\ CallStarts(p) => FaultAwaited(p)' = readyReason
            /\ (pc[p] = "awaitReady" /\ pc'[p] # "awaitReady"
                  /\ info[p].await = "pyodideReady") =>
                 /\ pc'[p] = "done"
                 /\ sent'[p] = Append(sent[p], ErrorLine(readyReason.val))
                 /\ ~info'[p].scanned /\ ~info'[p].ran]_vars

\* a call made after the initialisation rejected has failed with its reason
CallAfterRejectionFailed ==
  \E p \in Callers :
    /\ pyodideReady = "rejected"
    /\ info[p].found = "rejected"
    /\ pc[p] = "done"
    /\ sent[p] = <<ErrorLine(readyReason.val)>>
    /\ initStarts = 1

\* C5: a call of evaluateChunk whose guest code faulted has completed
\* normally, having sent exactly one error line, as its last line
GuestFaultReported ==
  \A p \in Callers :
    info[p].guestFault =>
      /\ pc[p] = "done"
      /\ info[p].outcome = "resolved"
      /\ ErrorLines(p) = {Len(sent[p])}

\* a chunk has run and its guest code has faulted
GuestFaulted ==
  \E p \in Callers : info[p].guestFault /\ info[p].ran /\ Len(sent[p]) > 0

\* C6 as stated: when the interpreter fails to initialise, evaluateChunk
\* rejects, and the chunk is neither scanned for packages nor executed
InitFaultRejects ==
  \A p \in Callers :
    (Called(p) /\ pc[p] = "done" /\ FaultAwaited(p).has) =>
      /\ info[p].outcome = "rejected"
      /\ ~info[p].scanned
      /\ ~info[p].ran

\* C6: when the interpreter fails to initialise, evaluateChunk completes
\* normally after sending the error line of the fault propagated from
\* ensurePyodideLoaded, and nothing else; the I/O bridge is not wired and the
\* chunk is neither scanned for packages nor executed
InitFaultReported ==
  \A p \in Callers :
    (Called(p) /\ pc[p] = "done" /\ FaultAwaited(p).has) =>
      /\ info[p].outcome = "resolved"
      /\ sent[p] = <<ErrorLine(FaultAwaited(p).val)>>
      /\ ~info[p].wired
      /\ ~info[p].scanned
      /\ ~info[p].ran
      /\ batch[p] = <<>>

\* a call whose script import threw has completed
ImportFaultCompleted ==
  \E p \in Callers :
    /\ Called(p) /\ pc[p] = "done"
    /\ info[p].await = "thrown"
    /\ FaultAwaited(p) = Some(ScriptImportError)

\* the names of the calls dispatched for operation p
BatchNames(p) == [i \in 1..Len(batch[p]) |-> batch[p][i].name]

\* C7: a call of evaluateChunk made after a guest fault was reported finds
\* the one interpreter, initialised once and not again; once resumed it has
\* wired the bridge and dispatched the loads of its chunk's packages, and it
\* executes the chunk when they have settled
UsableAfterGuestFault ==
  \A q \in Callers :
    info[q].afterFault =>
      /\ initStarts = 1
      /\ pyodideInstance = 1
      /\ pyodideReady = "fulfilled"
      /\ info[q].found = "fulfilled"
      /\ info[q].await = "pyodideReady"
      /\ pc[q] \in {"awaitReady", "loading", "executing", "done"}
      /\ pc[q] # "awaitReady" =>
           /\ info[q].wired /\ info[q].scanned
           /\ BatchNames(q) = PackagesOfChunk[op[q].chunk]
      /\ pc[q] \in {"executing", "done"} => info[q].ran /\ BatchSettled(q)

\* a call made after a guest fault has loaded its packages and run its chunk
RanAfterGuestFault ==
  \E q \in Callers :
    /\ info[q].afterFault
    /\ pc[q] = "done"
    /\ info[q].ran
    /\ Len(batch[q]) > 0

\* C8: once a failure for q has been recorded and until clearCache, every
\* later load of q returns at once the failure with the recorded message and
\* loadTime 0, no loader invoked
FailureAlwaysReturned ==
  [][\A p \in Procs : \A i \in NewTasks(p) :
       LET t == batch'[p][i]
       IN  t.name \in failSince =>
             /\ t.st = "cached"
             /\ t.result = Result(t.name, FALSE, Pyodide, Some(cache.failed[t.name]), 0)]_vars

\* what the cache tests of loadPackageWithStrategy do give: once a failure
\* for q has been recorded and until clearCache, every later load of q
\* returns at once from the cache with loadTime 0, no loader invoked: the
\* failure with the recorded message, unless a success for q has been
\* recorded as well, and then the success
FailureCacheHit ==
  [][\A p \in Procs : \A i \in NewTasks(p) :
       LET t == batch'[p][i]
       IN  t.name \in failSince =>
             /\ t.st = "cached"
             /\ t.result = IF t.name \in okSince
                           THEN Result(t.name, TRUE, Pyodide, None, 0)
                           ELSE Result(t.name, FALSE, Pyodide,
                                       Some(cache.failed[t.name]), 0)]_vars

\* a load has returned a recorded failure from the cache
FailureServedFromCache ==
  \E p \in Callers : \E i \in 1..Len(batch[p]) :
    /\ batch[p][i].st = "cached"
    /\ ~batch[p][i].result.success
    /\ batch[p][i].name \in failSince
    /\ batch[p][i].result.error = Some(cache.failed[batch[p][i].name])

\* C9: once a success for p has been recorded and until clearCache, every
\* later load of p returns at once success with loadTime 0, no loader invoked
SuccessCacheHit ==
  [][\A p \in Procs : \A i \in NewTasks(p) :
       LET t == batch'[p][i]
       IN  t.name \in okSince =>
             /\ t.st = "cached"
             /\ t.result = Result(t.name, TRUE, Pyodide, None, 0)]_vars

\* a load has returned a recorded success from the cache, the load that
\* recorded it having taken time
SuccessServedFromCache ==
  \E p \in Callers : \E i \in 1..Len(batch[p]) :
    /\ batch[p][i].st = "cached"
    /\ batch[p][i].result.success
    /\ batch[p][i].result.loadTime = 0
    /\ batch[p][i].name \in okSince
    /\ cache.loadTimestamps[batch[p][i].name] > 0

BatchReturning(p) ==
  /\ pc[p] = "loading"
  /\ op[p].kind = "loadPackages"
  /\ BatchSettled(p)

\* C11: for every input name sequence, loadPackages returns a result sequence
\* of the same length in which result i carries input name i, in whatever
\* order the concurrently dispatched loads completed
ResultsInInputOrder ==
  \A p \in Callers :
    BatchReturning(p) =>
      LET packageNames == op[p].names
          results == Returned(p).val
      IN  /\ Len(results) = Len(packageNames)
          /\ \A i \in 1..Len(packageNames) : results[i].packageName = packageNames[i]

\* a batch of two distinct names returns after its second load completed
\* strictly before its first (both were dispatched at the same time)
SecondCompletedFirst ==
  \E p \in Callers :
    /\ BatchReturning(p)
    /\ Len(op[p].names) = 2
    /\ op[p].names[1] # op[p].names[2]
    /\ batch[p][1].st = "settled" /\ batch[p][2].st = "settled"
    /\ batch[p][1].result.loadTime > batch[p][2].result.loadTime

\* the messages a fault of the loader called for packageName can carry
LoaderFaultMessages(packageName) ==
  {PyodideLoadError(packageName, e).message : e \in ExtErrors}
    \cup {MicropipInstallError(packageName, e).message : e \in ExtErrors}

\* a loadPackages call of p for distinct names
DistinctBatch(p) ==
  /\ op[p].kind = "loadPackages"
  /\ \A i, j \in 1..Len(op[p].names) : op[p].names[i] = op[p].names[j] => i = j

\* the loads that return in this step
Returning(p) ==
  {i \in 1..Len(batch[p]) :
     /\ Len(batch'[p]) = Len(batch[p])
     /\ batch[p][i].st \notin {"cached", "settled"}
     /\ batch'[p][i].st = "settled"}

\* C12: in a loadPackages batch of distinct names a failure or fault of one
\* load neither aborts the batch nor changes a sibling: the call returns one
\* result per name, the result of a name whose loader resolved is a success,
\* the result of a name whose loader rejected, or whose dispatch faulted, is a
\* failure carrying that fault's message, and the step in which one load
\* returns leaves the other loads of the batch and the batch's wait untouched
SiblingsUnaffected ==
  /\ [](\A p \in Callers :
         (BatchReturning(p) /\ DistinctBatch(p)) =>
           LET results == Returned(p).val
           IN  /\ Len(results) = Len(op[p].names)
               /\ \A i \in 1..Len(batch[p]) :
                    LET t == batch[p][i]
                    IN  /\ t.loader = "resolved" =>
                             results[i].success /\ results[i].error = None
                        /\ t.loader = "rejected" =>
                             /\ ~results[i].success
                             /\ results[i].error.has
                             /\ results[i].error.val \in LoaderFaultMessages(t.name)
                        /\ (t.loader = "none" /\ t.st = "settled") =>
                             /\ ~results[i].success
                             /\ results[i].error = Some(NotReadyError.message))
  /\ [][\A p \in Callers : \A i \in Returning(p) :
          /\ pc'[p] = pc[p]
          /\ \A j \in 1..Len(batch[p]) : j # i => batch'[p][j] = batch[p][j]]_vars

\* a batch of two distinct names returns with the load of one name failed
\* and the load of the other, which completed later, succeeded
OneFailedOneSucceeded ==
  \E p \in Callers :
    /\ BatchReturning(p) /\ DistinctBatch(p)
    /\ Len(batch[p]) = 2
    /\ \E i, j \in 1..2 :
         /\ batch[p][i].loader = "rejected" /\ ~Returned(p).val[i].success
         /\ batch[p][j].loader = "resolved" /\ Returned(p).val[j].success
         /\ batch[p][i].result.loadTime < batch[p][j].result.loadTime

\* C13 as stated: initialize marks the installer ready only after the load of
\* the installer package (micropip) has succeeded; when that load fails the
\* flag stays false
ReadyOnlyAfterInstallerLoaded ==
  [][(~micropipReady /\ micropipReady') =>
       \E k \in 1..Len(batch[InitProc]) :
         /\ batch[InitProc][k].name = Micropip
         /\ batch[InitProc][k].st \in {"cached", "settled"}
         /\ batch[InitProc][k].result.success]_vars

\* the result that reports the installer as not ready
NotReadyResult(r, packageName) ==
  /\ r.packageName = packageName
  /\ ~r.success
  /\ r.error = Some(NotReadyError.message)

\* C14: a load of a name that is not natively available, requested while the
\* installer is not marked ready, issues no install command; it returns, at
\* once from the cache or when the fault of the dispatch is caught, a
\* success=false result whose error says that micropip is not ready; the
\* return leaves the batch waiting and its other loads untouched
NotReadyIsAResult ==
  /\ [][\A p \in Procs : \A i \in NewTasks(p) :
          LET t == batch'[p][i]
          IN  (~micropipReady /\ ~isPyodideBuiltinPackage(t.name)) =>
                /\ t.loader = "none"
                /\ t.name \notin invoked' \ invoked
                /\ \/ t.st = "notready"
                   \/ t.st = "cached" /\ NotReadyResult(t.result, t.name)]_vars
  /\ [][\A p \in Procs : \A i \in Returning(p) :
          batch[p][i].st = "notready" =>
            /\ NotReadyResult(batch'[p][i].result, batch[p][i].name)
            /\ batch'[p][i].loader = "none"
            /\ pc'[p] = pc[p]
            /\ invoked' = invoked
            /\ \A j \in 1..Len(batch[p]) : j # i => batch'[p][j] = batch[p][j]]_vars

\* a batch returns the not-ready failure of one name beside the success of a
\* natively available sibling, the installer still not being ready
NotReadyBesideSuccess ==
  \E p \in Callers :
    /\ BatchReturning(p) /\ DistinctBatch(p)
    /\ ~micropipReady
    /\ \E i, j \in 1..Len(batch[p]) :
         /\ ~isPyodideBuiltinPackage(batch[p][i].name)
         /\ batch[p][i].st = "settled" /\ batch[p][i].loader = "none"
         /\ NotReadyResult(Returned(p).val[i], op[p].names[i])
         /\ batch[p][j].loader = "resolved" /\ Returned(p).val[j].success

\* the names of the loads of operation p that failed, in the order of dispatch
FailedNames(p) ==
  LET failed == SelectSeq(batch[p], LAMBDA t : ~t.result.success)
  IN  [k \in 1..Len(failed) |-> failed[k].name]

\* the warning lines among the lines operation p has sent
WarningLines(p) ==
  {k \in 1..Len(sent[p]) : StartsWith(sent[p][k], <<"[","w","a","r","n","i","n","g","]"," ">>)}

\* C15: when the package loading of a chunk yields a failed result,
\* evaluateChunk sends one warning line that lists exactly the failed names,
\* in the step that ends the loading and before the chunk executes, and the
\* chunk is executed all the same; without a failed result nothing is sent
WarningThenExecution ==
  /\ [][\A p \in Callers :
          (Called(p) /\ pc[p] = "loading" /\ pc'[p] # "loading") =>
            /\ pc'[p] = "executing"
            /\ info'[p].ran
            /\ sent'[p] =
                 IF Len(FailedNames(p)) > 0
                 THEN Append(sent[p], <<"[","w","a","r","n","i","n","g","]"," ","S","o","m","e"," ","p","a","c","k","a","g","e","s"," ","f","a","i","l","e","d"," ","t","o"," ","l","o","a","d",":"," ">>
                                        \o Join(FailedNames(p), <<","," ">>) \o <<"\n">>)
                 ELSE sent[p]]_vars
  /\ [](\A p \in Callers :
         (Called(p) /\ pc[p] = "executing") =>
           /\ Cardinality(WarningLines(p)) = (IF Len(FailedNames(p)) > 0 THEN 1 ELSE 0)
           /\ Len(FailedNames(p)) > 0 => WarningLines(p) = {Len(sent[p])})

\* a chunk is executing after the loads of both its packages failed and the
\* warning naming both was sent
ExecutingAfterWarning ==
  \E p \in Callers :
    /\ Called(p) /\ pc[p] = "executing" /\ info[p].ran
    /\ Len(FailedNames(p)) = 2
    /\ sent[p] = << <<"[","w","a","r","n","i","n","g","]"," ","S","o","m","e"," ","p","a","c","k","a","g","e","s"," ","f","a","i","l","e","d"," ","t","o"," ","l","o","a","d",":"," ","m","i","c","r","o","p","i","p",","," ","f","o","o","\n">> >>

\* C16 as stated: while a chunk executes, every non-empty text the
\* interpreter writes on its standard output or on its standard error channel
\* is passed to sendOutput, in the order of writing (each text is appended to
\* what was sent when it is written; an empty text sends nothing)
OutputAndErrorForwarded ==
  [][Len(io'.emitted) = Len(io.emitted) + 1 =>
       LET e == io'.emitted[Len(io'.emitted)]
       IN  \A p \in Callers :
             pc[p] = "executing" =>
               sent'[p] = IF Len(e.text) > 0 THEN Append(sent[p], e.text)
                          ELSE sent[p]]_vars

\* the call of the injected input function made in the step at hand
InputCalled == Len(io'.calls) = Len(io.calls) + 1

\* C17: the injected input function never waits: a call forwards its prompt
\* to sendOutput if and only if the prompt is a non-empty string, and does so
\* first; it then calls tryRequestInput exactly once and returns, within the
\* same step, the line obtained, or the empty string when none is available
InputNeverWaits ==
  [][InputCalled =>
       LET c == io'.calls[Len(io'.calls)]
           forwards == c.prompt.type = "string" /\ c.prompt.val # <<>>
       IN  \A p \in Callers :
             pc[p] = "executing" =>
               /\ pc'[p] = "executing"
               /\ sent'[p] = IF forwards THEN Append(sent[p], c.prompt.val) ELSE sent[p]
               /\ c.did = IF forwards THEN <<"sendOutput", "tryRequestInput">>
                          ELSE <<"tryRequestInput">>
               /\ IF io.inputs # <<>>
                  THEN c.returned = Head(io.inputs) /\ io'.inputs = Tail(io.inputs)
                  ELSE c.returned = <<>> /\ io'.inputs = <<>>]_vars

\* input() was called three times: with a non-empty prompt and no line
\* available, with an empty prompt and a line available, with no prompt and
\* no line available; only the first prompt was sent
PromptedAndUnprompted ==
  /\ Len(io.calls) = 3
  /\ io.calls[1].prompt = Str(<<"?"," ">>) /\ io.calls[1].returned = <<>>
  /\ io.calls[2].prompt = Str(<<>>) /\ io.calls[2].returned = <<"x">>
  /\ io.calls[3].prompt = Undefined /\ io.calls[3].returned = <<>>
  /\ sent[1] = << <<"?"," ">> >>

\* the name is natively available according to the two tables
InNativeTable(n) ==
  \/ n \in PYODIDE_BUILTIN_PACKAGES
  \/ \E e \in SPECIAL_HANDLING_PACKAGES : e[1] = n /\ e[2] \in PYODIDE_BUILTIN_PACKAGES

\* C18: classification is total and follows the two tables:
\* isPyodideBuiltinPackage(name) is true exactly when name is in the native
\* table or is an alias key whose target is in it; the native loader is
\* chosen exactly for those names and the ecosystem installer for every other
\* name; getPyodidePackageName returns the alias target of an alias key and
\* every other name unchanged
ClassificationFollowsTables ==
  arg.has /\ arg.val \in ClassifiedNames =>
    LET n == arg.val
    IN  /\ res.builtin.has => (res.builtin.val <=> InNativeTable(n))
        /\ res.strategy.has =>
             IF InNativeTable(n) THEN res.strategy.val = "native"
             ELSE res.strategy.val = (IF micropipReady THEN "installer" ELSE "notready")
        /\ res.actual.has =>
             /\ \A e \in SPECIAL_HANDLING_PACKAGES : e[1] = n => res.actual.val = e[2]
             /\ (\A e \in SPECIAL_HANDLING_PACKAGES : e[1] # n) => res.actual.val = n

\* the alias key sklearn was classified natively available, resolved to
\* scikit-learn and routed to the native loader
AliasKeyClassified ==
  /\ arg = Some(<<"s","k","l","e","a","r","n">>)
  /\ res = [builtin |-> Some(TRUE), actual |-> Some(<<"s","c","i","k","i","t","-","l","e","a","r","n">>),
            strategy |-> Some("native")]

\* the declarations extractImports emitted for line i of the chunk
DeclarationsOf(i) ==
  {k \in 1..Len(res.imports.val) : res.imports.val[k].line = i}

\* C19: for every line `import <dotted-path>`, with or without
\* ` as <identifier>`, extractImports emits exactly one declaration, whose
\* module is the whole dotted path, with isFromImport = false and the 1-based
\* number of the line; extractPackageNames yields the first segment of the
\* path when it is not a standard-library name (and not when it is one)
PlainImportsDeclared ==
  (arg.has /\ res.imports.has) =>
    \A i \in 1..Len(arg.val) :
      LET l == arg.val[i]
      IN  l.kind = "import" =>
            /\ Cardinality(DeclarationsOf(i)) = 1
            /\ \A k \in DeclarationsOf(i) :
                 /\ res.imports.val[k].module = Join(l.path, <<".">>)
                 /\ ~res.imports.val[k].isFromImport
            /\ res.packages.has =>
                 (l.path[1] \in Range(res.packages.val) <=> l.path[1] \notin builtinModules)

\* the chunk "# import foo\n  import a.b.c as d" was scanned: one declaration,
\* for line 2, and the package name a
DottedImportScanned ==
  /\ arg.has /\ res.imports.has /\ res.packages.has
  /\ Len(arg.val) = 2
  /\ CodeText(arg.val) = <<"#"," ","i","m","p","o","r","t"," ","f","o","o","\n"," "," ","i","m","p","o","r","t"," ","a",".","b",".","c"," ","a","s"," ","d">>
  /\ res.imports.val = << [module |-> <<"a",".","b",".","c">>, alias |-> Some(<<"d">>), items |-> None,
                           isFromImport |-> FALSE, line |-> 2] >>
  /\ res.packages.val = << <<"a">> >>

\* the declaration records the alias of the item
AliasRecorded(decl, item) ==
  \/ decl.alias = item.alias
  \/ /\ decl.items.has
     /\ \E k \in 1..Len(decl.items.val) : decl.items.val[k] = ItemText(item)

\* C20 as stated: for every line `from <dotted-path> import <items>`,
\* extractImports emits exactly one declaration, with the dotted path as
\* module, isFromImport = true, the imported names in order as items, and the
\* alias of every item written `<name> as <alias>`
FromImportsDeclaredWithAliases ==
  (arg.has /\ res.imports.has) =>
    \A i \in 1..Len(arg.val) :
      LET l == arg.val[i]
      IN  l.kind = "from" =>
            /\ Cardinality(DeclarationsOf(i)) = 1
            /\ \A k \in DeclarationsOf(i) :
                 LET decl == res.imports.val[k]
                 IN  /\ decl.module = Join(l.path, <<".">>)
                     /\ decl.isFromImport
                     /\ decl.items = Some([j \in 1..Len(l.items) |-> l.items[j].name])
                     /\ \A j \in 1..Len(l.items) :
                          l.items[j].alias.has => AliasRecorded(decl, l.items[j])

\* what extractImports does for a from-import: one declaration with the
\* dotted path, isFromImport = true and the imported names in order, and no
\* alias at all
FromImportsDeclared ==
  (arg.has /\ res.imports.has) =>
    \A i \in 1..Len(arg.val) :
      LET l == arg.val[i]
      IN  l.kind = "from" =>
            /\ Cardinality(DeclarationsOf(i)) = 1
            /\ \A k \in DeclarationsOf(i) :
                 LET decl == res.imports.val[k]
                 IN  /\ decl.module = Join(l.path, <<".">>)
                     /\ decl.isFromImport
                     /\ decl.items = Some([j \in 1..Len(l.items) |-> l.items[j].name])
                     /\ decl.alias = None

\* C21: a line that is blank after trimming, or whose first character after
\* the leading whitespace is '#', produces no declaration; a line that
\* matches neither import pattern is skipped and the scan goes on to the
\* lines after it; there are never more declarations than lines
NoDeclarationForOtherLines ==
  (arg.has /\ res.imports.has) =>
    /\ \A i \in 1..Len(arg.val) :
         arg.val[i].kind \in {"comment", "blank", "other"} => DeclarationsOf(i) = {}
    /\ \A i \in 1..Len(arg.val) :
         arg.val[i].kind \in {"import", "from"} => DeclarationsOf(i) # {}
    /\ Len(res.imports.val) <= Len(arg.val)

\* a chunk of a commented-out import and a line matching neither pattern
\* was scanned and gave no declaration
NothingDeclared ==
  /\ arg.has /\ res.imports.has
  /\ CodeText(arg.val) = <<" "," ","#","f","r","o","m"," ","a"," ","i","m","p","o","r","t"," ","b","\n","i","m","p","o","r","t","a","n","t"," ","="," ","1">>
  /\ res.imports.val = <<>>

\* the first segments of the modules of a list of forms
TopLevelNames(forms) == {forms[k].path[1] : k \in 1..Len(forms)}

\* C22: for every list of declarations, the set extractPackageNames returns
\* contains no name of the fixed set of standard-library modules, whether the
\* module was imported plainly, selectively, or by a dotted path: it holds
\* the first segments of the modules that are not such names, and only those
NoStandardLibraryName ==
  (arg.has /\ res.packages.has) =>
    /\ Range(res.packages.val) \cap builtinModules = {}
    /\ Range(res.packages.val) = TopLevelNames(arg.val) \ builtinModules

\* the extraction from `import os`, `from os.path import x`,
\* `import numpy.random` gave numpy alone
StandardLibraryLeftOut ==
  /\ arg = Some(<< [path |-> << <<"o","s">> >>, isFromImport |-> FALSE],
                   [path |-> << <<"o","s">>, <<"p","a","t","h">> >>, isFromImport |-> TRUE],
                   [path |-> << <<"n","u","m","p","y">>, <<"r","a","n","d","o","m">> >>, isFromImport |-> FALSE] >>)
  /\ res.packages = Some(<< <<"n","u","m","p","y">> >>)

\* C23: extractPackageNames is pure and order-independent: applied to a
\* permutation of the list, or to the list with a declaration repeated, it
\* returns the same set of names, and applied again to the same list it
\* returns the same set
SameNamesInAnyOrder ==
  /\ (res.packages.has /\ res.rearranged.has) =>
       Range(res.rearranged.val.packages) = Range(res.packages.val)
  /\ (res.packages.has /\ res.again.has) =>
       Range(res.again.val) = Range(res.packages.val)

\* a list of three declarations, a standard-library module first, and the
\* same list in reverse order gave the same two names
ReversedGivesSameNames ==
  /\ arg.has /\ res.packages.has /\ res.rearranged.has /\ res.again.has
  /\ Len(arg.val) = 3
  /\ arg.val[1].path[1] \in builtinModules
  /\ res.rearranged.val.by = <<3, 2, 1>>
  /\ Cardinality(Range(res.packages.val)) = 2
  /\ Range(res.rearranged.val.packages) = Range(res.packages.val)

\* C24: within one evaluateChunk call the steps are strictly ordered: the
\* guest code of the chunk starts executing only after the initialisation of
\* the interpreter (loadPyodide and PackageManager.initialize) has completed,
\* the output/input bridge has been wired, the chunk has been scanned, and
\* every package load dispatched for the chunk has settled
StepsInOrder ==
  /\ [](\A p \in Callers :
         (Called(p) /\ (pc[p] = "executing" \/ info[p].ran)) =>
           /\ pyodideReady = "fulfilled"
           /\ pyodideInstance # 0
           /\ packageManager
           /\ pc[InitProc] = "done"
           /\ info[p].wired
           /\ info[p].scanned
           /\ BatchSettled(p))
  /\ [][\A p \in Callers :
          (pc[p] # "executing" /\ pc'[p] = "executing") =>
            /\ pc[p] = "loading"
            /\ info[p].wired
            /\ BatchSettled(p)
            /\ pc[InitProc] = "done"]_vars

\* a chunk executes after the call that started the initialisation waited
\* for it, and after both of the chunk's package loads, one of them by the
\* installer, have settled
ExecutingAfterLoads ==
  \E p \in Callers :
    /\ Called(p) /\ pc[p] = "executing"
    /\ info[p].found = "unset"
    /\ Len(batch[p]) = 2
    /\ \E i \in 1..2 : batch[p][i].st = "settled" /\ batch[p][i].loader = "resolved"
                          /\ batch[p][i].result.method = MicropipMethod

\* a load that has been dispatched and has not returned
InFlight(t) == t.st \in {"native", "installer", "notready"}

\* C25: loadPackages issues the loader call of every name of the batch
\* before any load of the batch is awaited or completes: the calls for all
\* names are dispatched in the one step of the call, each call that needs a
\* loader has invoked it in that step, none has returned through a loader
\* yet, and no state holds a batch of which only a part is dispatched
AllDispatchedBeforeAnyAwait ==
  /\ [](\A p \in Callers :
         op[p].kind = "loadPackages" => Len(batch[p]) = Len(op[p].names))
  /\ [][\A p \in Callers :
          (pc[p] = "idle" /\ pc'[p] = "loading" /\ op'[p].kind = "loadPackages") =>
            /\ NewTasks(p) = 1..Len(op'[p].names)
            /\ \A i \in NewTasks(p) :
                 LET t == batch'[p][i]
                 IN  /\ t.name = op'[p].names[i]
                     /\ t.st # "settled"
                     /\ t.st \in {"native", "installer"} =>
                          t.loader = "called" /\ t.name \in invoked' /\ t.start = now]_vars

\* the loads of two distinct names of one batch are in flight together,
\* each with its loader called and neither settled
BothInFlight ==
  \E p \in Callers :
    /\ DistinctBatch(p)
    /\ Len(batch[p]) = 2
    /\ \A i \in 1..2 : batch[p][i].loader = "called"
                          /\ batch[p][i].st \in {"native", "installer"}

ReportedMessage(p) ==
  LET line == sent[p][Len(sent[p])]
  IN  Slice(line, Len(<<"[","p","y","t","h","o","n"," ","e","r","r","o","r","]"," ">>) + 1, Len(line) + 1)

\* C27 as stated: the error line sent for a fault of the guest code carries
\* the innermost message: the reported message begins neither with the
\* prefix 'Error: ' nor with the prefix 'Python execution failed: ', however
\* these prefixes are nested in the message of the fault
InnermostMessageReported ==
  \A p \in Callers :
    (Called(p) /\ info[p].guestFault /\ pc[p] = "done") =>
      /\ Len(sent[p]) > 0
      /\ StartsWith(sent[p][Len(sent[p])], <<"[","p","y","t","h","o","n"," ","e","r","r","o","r","]"," ">>)
      /\ ~StartsWith(ReportedMessage(p), <<"E","r","r","o","r",":"," ">>)
      /\ ~StartsWith(ReportedMessage(p), <<"P","y","t","h","o","n"," ","e","x","e","c","u","t","i","o","n"," ","f","a","i","l","e","d",":"," ">>)

\* an entry leaves one of the three maps of the cache in the step at hand
CacheShrinks ==
  \/ cache.loaded \ cache'.loaded # {}
  \/ DOMAIN cache.failed \ DOMAIN cache'.failed # {}
  \/ DOMAIN cache.loadTimestamps \ DOMAIN cache'.loadTimestamps # {}

\* C28: getStats, isPackageLoaded and getFailedPackages answer from the
\* cache and leave the cache, the installer-ready flag and the configuration
\* unchanged; the Map getFailedPackages returns is a copy, so that a change
\* the caller makes to it does not change the cache; clearCache empties the
\* three maps of the cache and changes nothing else of the manager
AccessorsOnlyRead ==
  /\ [][(res' # res /\ res'.has) =>
          /\ cache' = cache
          /\ micropipReady' = micropipReady
          /\ config' = config
          /\ <<pc', op', batch'>> = <<pc, op, batch>>
          /\ res'.val.call = "getStats" =>
               /\ res'.val.loaded = Cardinality(cache.loaded)
               /\ res'.val.failed = Cardinality(DOMAIN cache.failed)
               /\ res'.val.loadTimes = cache.loadTimestamps
          /\ res'.val.call = "isPackageLoaded" =>
               (res'.val.is <=> arg'.val \in cache.loaded)
          /\ (res'.val.call = "getFailedPackages" /\ ~res'.val.touched) =>
               res'.val.map = cache.failed]_vars
  /\ [][CacheShrinks =>
          /\ cache' = EmptyCache
          /\ micropipReady' = micropipReady
          /\ config' = config
          /\ <<pc', op', batch', now', res'>> = <<pc, op, batch, now, res>>]_vars

\* the caller has emptied the Map it got from getFailedPackages, and the
\* cache still holds the failure
CopyChangedCacheKept ==
  /\ res.has
  /\ res.val.call = "getFailedPackages" /\ res.val.touched
  /\ res.val.map = EmptyMap
  /\ DOMAIN cache.failed = {Foo}
  /\ micropipReady

\* C29: in every reachable state of the manager the names that have a load
\* timestamp are the names recorded as loaded, whatever loads and clearCache
\* calls came before
TimestampsExactlyForLoaded ==
  DOMAIN cache.loadTimestamps = cache.loaded

\* a load that succeeded has been cleared from the cache while its call is
\* still open, and a later load is recorded with its timestamp
LoadedAgainAfterClear ==
  \E p \in Callers :
    /\ pc[p] = "loading"
    /\ \E i \in 1..Len(batch[p]) :
         /\ batch[p][i].st = "settled" /\ batch[p][i].result.success
         /\ batch[p][i].name \notin cache.loaded
    /\ \E n \in cache.loaded : cache.loadTimestamps[n] > 0

\* C30 as stated: every load a call of evaluateChunk or loadPackage
\* dispatches to the manager starts only after initialize() has completed,
\* and no not-ready failure is in the cache while initialize() is still
\* loading the essential packages
LoadsStartAfterInitialize ==
  /\ [][\A p \in Callers :
          NewTasks(p) # {} => (packageManager /\ pc[InitProc] = "done")]_vars
  /\ [](pc[InitProc] = "essentials" =>
          \A n \in DOMAIN cache.failed : cache.failed[n] # NotReadyError.message)

\* a non-empty string of the characters [A-Za-z0-9_]
IsIdentifier(s) ==
  /\ Len(s) > 0
  /\ \A k \in 1..Len(s) : s[k] \in WordChars

\* C31: every package name loadPackagesFromCode passes to the classifier and
\* to the installer command is a non-empty string of the characters
\* [A-Za-z0-9_], whatever the text of the chunk: every program handed to the
\* interpreter is the fixed text of the install command around such a name
OnlyIdentifiersReachInstaller ==
  /\ res.packages.has => \A k \in 1..Len(res.packages.val) : IsIdentifier(res.packages.val[k])
  /\ \A k \in 1..Len(res.classified) : IsIdentifier(res.classified[k])
  /\ \A k \in 1..Len(res.commands) :
       LET c == res.commands[k]
           tail == Len(c) - Len(CommandSuffix) + 1
       IN  /\ StartsWith(c, CommandPrefix)
           /\ tail > Len(CommandPrefix)
           /\ MatchAt(c, tail, CommandSuffix)
           /\ IsIdentifier(Slice(c, Len(CommandPrefix) + 1, tail))

\* a chunk whose import line goes on with a quote, a bracket and a second
\* statement has been analysed with the installer ready: the one command
\* issued installs foo
QuotedChunkInstallsPlainName ==
  /\ arg = Some(<<"i","m","p","o","r","t"," ","f","o","o","\"",")",";"," ","i","m","p","o","r","t"," ","o","s",";"," ","o","s",".","s","y","s","t","e","m","(","\"","x">>)
  /\ micropipReady
  /\ res.packages = Some(<< <<"f","o","o">> >>)
  /\ res.classified = << <<"f","o","o">> >>
  /\ res.commands = << <<"\n"," "," "," "," "," "," "," "," ","i","m","p","o","r","t"," ","m","i","c","r","o","p","i","p","\n"," "," "," "," "," "," "," "," ","a","w","a","i","t"," ","m","i","c","r","o","p","i","p",".","i","n","s","t","a","l","l","(","\"","f","o","o","\"",")","\n"," "," "," "," "," "," ">> >>

====
